---------------------------- MODULE Spec2Model ----------------------------
(***************************************************************************)
(* A model of the matroid library: the subset type and its enumerator      *)
(* (src/src/set.rs), the rank-oracle trait with its generic algorithms     *)
(* (src/src/matroid/matroid.rs), the concrete matroids, and the            *)
(* combinatorial derived matroid (src/src/matroid/combinatorial_derived.rs)*)
(*                                                                         *)
(* Representation.  A Set { content: usize } is modelled by the set of its *)
(* bit positions: element i is in the value iff bit i of content is 1.     *)
(* Content(s) is the word, SetOf(w) the value made from a word.  The       *)
(* enumerator's own counter `current` is a usize and stays a number; all   *)
(* arithmetic on it is done on numbers.  Every word of the model is below  *)
(* 2^31, far from the 64 bit limit of usize, so no operation wraps.        *)
(***************************************************************************)
EXTENDS Integers, Sequences, FiniteSets

(***************************************************************************)
(* Bounds of the model.                                                    *)
(***************************************************************************)
\* largest ground set handed to a bare SetIterator
MaxSetN == 5
\* number of next() calls made after the first None
MaxNones == 2
\* largest ground set of the uniform matroids UniformMatroid::new builds
MaxN == 7
\* largest elongation handed to Matroid::elongate
MaxElong == 2
\* largest ground set of the uniform matroids handed to combinatorial_derived
MaxSourceN == 5
\* largest number of elements of a derived matroid whose rank is asked of
\* every subset
MaxPoints == 7
\* number of worker threads of the rayon pool
MaxWorkers == 2
\* largest ground set of a matroid whose par_circuits() is run worker by worker
MaxParN == 3
MaxEpsPoints == 5
MaxFamily == 3
MaxRounds == 7

VARIABLES
    it,        \* the SetIterator being driven: current, n, size_limit, size_limit_policy
    built,     \* the builder chain that made `it`: <<last builder method, n, limit>>
    yielded,   \* the words returned as Some(..) so far, in order
    nones,     \* how many times next() has returned None
    mat,       \* the matroid the trait methods are called on
    picked,    \* the subset handed to a method that takes one
    result     \* what the methods called so far have returned

vars == <<it, built, yielded, nones, mat, picked, result>>
iterVars == <<it, built, yielded, nones>>

(***************************************************************************)
(* Words: shifts and bit operations on usize values.                       *)
(***************************************************************************)
Pow2(s) == 2 ^ s

\* x << s
Shl(x, s) == x * Pow2(s)

\* x >> s
Shr(x, s) == x \div Pow2(s)

RECURSIVE BitAnd(_, _)
BitAnd(a, b) ==
    IF a = 0 \/ b = 0 THEN 0
    ELSE (IF a % 2 = 1 /\ b % 2 = 1 THEN 1 ELSE 0) + 2 * BitAnd(a \div 2, b \div 2)

RECURSIVE BitOr(_, _)
BitOr(a, b) ==
    IF a = 0 THEN b
    ELSE IF b = 0 THEN a
    ELSE (IF a % 2 = 1 \/ b % 2 = 1 THEN 1 ELSE 0) + 2 * BitOr(a \div 2, b \div 2)

RECURSIVE BitXor(_, _)
BitXor(a, b) ==
    IF a = 0 THEN b
    ELSE IF b = 0 THEN a
    ELSE (IF (a % 2) # (b % 2) THEN 1 ELSE 0) + 2 * BitXor(a \div 2, b \div 2)

\* a & !m
BitAndNot(a, m) == a - BitAnd(a, m)

\* usize::count_ones
RECURSIVE count_ones(_)
count_ones(x) == IF x = 0 THEN 0 ELSE (x % 2) + count_ones(x \div 2)

(***************************************************************************)
(* SetIterator (src/src/set.rs).                                           *)
(***************************************************************************)
Policies == {"Less", "LessEqual", "Equal", "GreaterEqual", "Greater"}

\* Option<usize>::None for size_limit, Option<LimitPolicy>::None for the policy
NoLimit == -1
NoPolicy == "None"

\* SetIterator::new; the n > usize::BITS panic is out of reach of the model's bounds
IterNew(n) ==
    [current |-> 0, n |-> n, size_limit |-> NoLimit, size_limit_policy |-> NoPolicy]

\* SetIterator::size_limit: stores the limit and selects the Equal policy
SizeLimitOf(i, limit) ==
    [i EXCEPT !.size_limit = limit, !.size_limit_policy = "Equal"]

\* SetIterator::equal, smaller, smaller_equal, greater, greater_equal
WithPolicy(i, p) == [i EXCEPT !.size_limit_policy = p]

\* satisfy_limit with LessEqual and GreaterEqual read as strict comparisons
satisfy_limit_strict(i, item) ==
    LET size == count_ones(item) IN
    CASE i.size_limit_policy = "Less" -> size < i.size_limit
      [] i.size_limit_policy = "LessEqual" -> size < i.size_limit
      [] i.size_limit_policy = "Equal" -> size = i.size_limit
      [] i.size_limit_policy = "GreaterEqual" -> size > i.size_limit
      [] i.size_limit_policy = "Greater" -> size > i.size_limit
      [] OTHER -> TRUE

\* SetIterator::satisfy_limit
satisfy_limit(i, item) ==
    LET size == count_ones(item) IN
    CASE i.size_limit_policy = "Less" -> size < i.size_limit
      [] i.size_limit_policy = "LessEqual" -> size <= i.size_limit
      [] i.size_limit_policy = "Equal" -> size = i.size_limit
      [] i.size_limit_policy = "GreaterEqual" -> size >= i.size_limit
      [] i.size_limit_policy = "Greater" -> size > i.size_limit
      [] OTHER -> TRUE

\* Option<Set> results of the iterator: the iterator after the call and the word
SomeItem(i, w) == [it |-> i, some |-> TRUE, val |-> w]
NoItem(i) == [it |-> i, some |-> FALSE, val |-> 0]

\* the while loop of the Equal branch: lowest i with bits (i+1, i) = 01
RECURSIVE FindBoundary(_, _)
FindBoundary(cur, i) ==
    IF BitAnd(Shr(cur, i), 3) # 1 THEN FindBoundary(cur, i + 1) ELSE i

\* the successor step without the repacking of the bits to the right
SuccessorNoRepack(cur) == BitXor(cur, Shl(3, FindBoundary(cur, 0)))

\* the end of the successor step: the bits of moved under mask (stuff_to_right)
\* are cleared and as many ones are put at the low end
Repack(moved, mask) ==
    BitOr(BitAndNot(moved, mask), Shl(1, count_ones(BitAnd(moved, mask))) - 1)

\* the successor step with the boundary found at i: bits i and i+1 are swapped
MoveAt(cur, i) == Repack(BitXor(cur, Shl(3, i)), Shl(1, i) - 1)

\* the successor step of the Equal branch: the value of self.current after it
Successor(cur) == MoveAt(cur, FindBoundary(cur, 0))

\* self.current = c; Some(c)
FirstItem(i, c) == SomeItem([i EXCEPT !.current = c], c)

\* self.current = c; None when c is out of the ground set, Some(c) otherwise
SuccessorItem(i, c) ==
    IF c >= Shl(1, i.n) THEN NoItem([i EXCEPT !.current = c])
    ELSE SomeItem([i EXCEPT !.current = c], c)

\* the Equal branch of set_next
SetNextEqual(i) ==
    IF i.size_limit = NoLimit THEN NoItem(i)
    ELSE IF i.current = 0 /\ i.size_limit > 0 THEN FirstItem(i, Shl(1, i.size_limit) - 1)
    ELSE IF i.current >= Shl(1, i.n) THEN NoItem(i)
    ELSE IF i.size_limit = 0 THEN SomeItem([i EXCEPT !.current = Shl(1, i.n)], 0)
    ELSE SuccessorItem(i, Successor(i.current))

\* the scan after self.current += 1, j the iterator then
ScanAdvance(j) == [it |-> j, st |-> IF j.current >= Shl(1, j.n) THEN "none" ELSE "scan"]

\* one turn of the while loop of the scan branch, on <<iterator, state>>:
\* "scan" while the loop runs, "found" once self.current satisfies the limit,
\* "none" once the loop has returned None
ScanTurn(s) ==
    IF s.st # "scan" THEN s
    ELSE IF satisfy_limit(s.it, s.it.current) THEN [s EXCEPT !.st = "found"]
    ELSE ScanAdvance([s.it EXCEPT !.current = s.it.current + 1])

\* turns many turns of the loop (split in halves: the evaluation stays shallow)
RECURSIVE ScanTurns(_, _)
ScanTurns(s, turns) ==
    IF turns <= 1 \/ s.st # "scan" THEN ScanTurn(s)
    ELSE ScanTurns(ScanTurns(s, turns \div 2), turns - turns \div 2)

\* the while loop run until it leaves
RECURSIVE ScanLoop(_, _)
ScanLoop(s, turns) ==
    IF s.st # "scan" THEN s ELSE ScanLoop(ScanTurns(s, turns), 2 * turns)

\* what the scan branch returns once its loop has left in state t
ScanItem(t) ==
    IF t.st = "none" THEN NoItem(t.it)
    ELSE SomeItem([t.it EXCEPT !.current = t.it.current + 1], t.it.current)

\* the scan branch of set_next
SetNextScan(i) == ScanItem(ScanLoop([it |-> i, st |-> "scan"], 1))

\* SetIterator::set_next
set_next(i) ==
    IF i.size_limit_policy = "Equal" THEN SetNextEqual(i) ELSE SetNextScan(i)

\* Iterator::next for SetIterator
IterNextOf(i) ==
    IF i.current >= Shl(1, i.n) THEN NoItem(i) ELSE set_next(i)

\* the collection s after next() has returned r
Collected(s, r) ==
    IF r.some THEN [it |-> r.it, acc |-> Append(s.acc, r.val), done |-> FALSE]
    ELSE [it |-> r.it, acc |-> s.acc, done |-> TRUE]

\* one step of collecting an iterator: <<iterator, words so far, exhausted>>
CollectStep(s) == IF s.done THEN s ELSE Collected(s, IterNextOf(s.it))

RECURSIVE CollectSteps(_, _)
CollectSteps(s, steps) ==
    IF steps <= 1 \/ s.done THEN CollectStep(s)
    ELSE CollectSteps(CollectSteps(s, steps \div 2), steps - steps \div 2)

RECURSIVE CollectLoop(_, _)
CollectLoop(s, steps) ==
    IF s.done THEN s ELSE CollectLoop(CollectSteps(s, steps), 2 * steps)

\* the words an iterator yields until its first None, in order (Iterator::collect)
Collect(i) == CollectLoop([it |-> i, acc |-> <<>>, done |-> FALSE], 1).acc

(***************************************************************************)
(* Set (src/src/set.rs).                                                   *)
(***************************************************************************)
RECURSIVE BitsFrom(_, _)
BitsFrom(w, e) ==
    IF w = 0 THEN {}
    ELSE (IF w % 2 = 1 THEN {e} ELSE {}) \cup BitsFrom(w \div 2, e + 1)

\* Set::from(usize), Set { content }
SetOf(w) == BitsFrom(w, 0)

\* usize::from(Set)
RECURSIVE Content(_)
Content(s) ==
    IF s = {} THEN 0
    ELSE LET e == CHOOSE x \in s : TRUE IN Pow2(e) + Content(s \ {e})

Max(S) == CHOOSE x \in S : \A y \in S : y <= x

\* Set::empty
empty == {}

\* Set::of_size
of_size(n) == SetOf(Shl(1, n) - 1)

\* Set::leftmost_element: (content as f32).log2() as usize, which is 0 for the
\* empty set and the index of the highest bit for every content below 2^24
leftmost_element(s) == IF s = {} THEN 0 ELSE Max(s)

\* Set::size
size(s) == Cardinality(s)

\* Set::union, intersect, difference
union(a, b) == a \cup b
intersect(a, b) == a \cap b
difference(a, b) == a \ b

\* Set::remove_element, add_element, is_empty, contains_element
remove_element(s, element) == s \ {element}
add_element(s, element) == s \cup {element}
is_empty(s) == s = {}
contains_element(s, element) == element \in s

\* the while loop of Set::extend
RECURSIVE ExtendLoop(_, _, _, _, _)
ExtendLoop(self, set, i, j, content) ==
    IF i <= leftmost_element(self) /\ j <= leftmost_element(set)
    THEN IF contains_element(set, j)
         THEN ExtendLoop(self, set, i + 1, j + 1,
                         IF contains_element(self, i) THEN content \cup {j} ELSE content)
         ELSE ExtendLoop(self, set, i, j + 1, content)
    ELSE content

\* Set::extend
extend(self, set) == ExtendLoop(self, set, 0, 0, {})

\* Set::union_of_sets; sets is a Vec, sets[i] of the code is sets[i + 1] here
union_of_sets(self, sets) ==
    UNION {sets[i + 1] : i \in {j \in 0..leftmost_element(self) : contains_element(self, j)}}

\* PartialOrd for Set: a <= b (Equal or Less) and a < b (Less)
SetLe(a, b) == a = b \/ intersect(a, b) = a
SetLt(a, b) == a # b /\ intersect(a, b) = a

\* a list of words as the list of the Sets they are
SetsOf(ws) == [x \in 1..Len(ws) |-> SetOf(ws[x])]

\* the Sets an iterator yields, in order
CollectSets(i) == SetsOf(Collect(i))

\* the members of a Vec
Range(v) == {v[x] : x \in 1..Len(v)}

(***************************************************************************)
(* Matrices over GF(2) (src/src/matrix.rs).  A matrix is a record of its    *)
(* dimensions and its entries data[i][j], rows and columns counted from 0   *)
(* as in the code.  The field arithmetic is that of tinyfield's GF2.        *)
(***************************************************************************)
GFAdd(x, y) == (x + y) % 2
GFMul(x, y) == (x * y) % 2
GFNeg(x) == (2 - x) % 2
\* division by the only non-zero element
GFDiv(x, y) == x

\* DynMatrix::from_rows; rows is a tuple of tuples
from_rows(rows) ==
    [num_rows |-> Len(rows),
     num_cols |-> IF Len(rows) = 0 THEN 0 ELSE Len(rows[1]),
     data |-> [i \in 0..(Len(rows) - 1) |->
                 [j \in 0..(Len(rows[1]) - 1) |-> rows[i + 1][j + 1]]]]

\* Vec<usize>::from(&Set): the elements in ascending order; sorted and without
\* repetition already, so subset_matrix's sort and dedup leave it alone
subset_matrix(self, columns) ==
    LET cols == [x \in 0..(Cardinality(columns) - 1) |->
                    CHOOSE c \in columns : Cardinality({d \in columns : d < c}) = x]
    IN [num_rows |-> self.num_rows,
        num_cols |-> Cardinality(columns),
        data |-> [i \in 0..(self.num_rows - 1) |->
                    [j \in 0..(Cardinality(columns) - 1) |-> self.data[i][cols[j]]]]]

swap_rows(self, a, b) ==
    [self EXCEPT !.data = [i \in DOMAIN self.data |->
        IF i = a THEN self.data[b] ELSE IF i = b THEN self.data[a] ELSE self.data[i]]]

divide_row(self, row, scalar) ==
    [self EXCEPT !.data[row] = [i \in DOMAIN self.data[row] |-> GFDiv(self.data[row][i], scalar)]]

\* row a += k * b
add_row_to_row(self, a, b, k) ==
    [self EXCEPT !.data[a] = [i \in DOMAIN self.data[a] |->
        GFAdd(self.data[a][i], GFMul(k, self.data[b][i]))]]

\* the for loop of gauss_jordan that clears column j in every row but i
RECURSIVE ClearColumn(_, _, _, _)
ClearColumn(self, i, j, k) ==
    IF k >= self.num_rows THEN self
    ELSE ClearColumn(IF k # i THEN add_row_to_row(self, k, i, GFNeg(self.data[k][j])) ELSE self,
                     i, j, k + 1)

\* the inner while loop of gauss_jordan: the first row from k on with a
\* non-zero entry in column j, num_rows when there is none
RECURSIVE FirstNonZero(_, _, _)
FirstNonZero(self, k, j) ==
    IF k < self.num_rows /\ self.data[k][j] = 0 THEN FirstNonZero(self, k + 1, j) ELSE k

\* the outer while loop of gauss_jordan
\* one turn of the outer while loop of gauss_jordan that found its pivot:
\* swapped has the pivot in row i; the row is divided by it and column j cleared
Eliminate(swapped, i, j) ==
    ClearColumn(divide_row(swapped, i, swapped.data[i][j]), i, j, 0)

\* the outer while loop of gauss_jordan, and its turn with k the row found
RECURSIVE GaussJordanLoop(_, _, _)
RECURSIVE GaussJordanTurn(_, _, _, _)
GaussJordanTurn(self, i, j, k) ==
    IF k = self.num_rows THEN GaussJordanLoop(self, i, j + 1)
    ELSE GaussJordanLoop(Eliminate(IF k # i THEN swap_rows(self, i, k) ELSE self, i, j),
                         i + 1, j + 1)

GaussJordanLoop(self, i, j) ==
    IF i < self.num_rows /\ j < self.num_cols
    THEN GaussJordanTurn(self, i, j, FirstNonZero(self, i, j))
    ELSE self

gauss_jordan(self) == GaussJordanLoop(self, 0, 0)

\* Matrix::rank: the rows before the first zero row
RECURSIVE MatrixRankLoop(_, _)
MatrixRankLoop(self, i) ==
    IF i >= self.num_rows THEN 0
    ELSE IF \A j \in 0..(self.num_cols - 1) : self.data[i][j] = 0 THEN 0
    ELSE 1 + MatrixRankLoop(self, i + 1)

matrix_rank(self) == MatrixRankLoop(self, 0)

(***************************************************************************)
(* The matroid variants (src/src/matroid).  A matroid value is a record     *)
(* with the fields of its struct and a type tag naming the struct; a list   *)
(* of bases (Vec<Set>) is kept as the set of its members.                   *)
(***************************************************************************)
\* UniformMatroid::new
UniformMatroid(k, n) == [type |-> "UniformMatroid", k |-> k, n |-> n]

\* BasesMatroid::new
BasesMatroid(bases, n, k) == [type |-> "BasesMatroid", bases |-> bases, n |-> n, k |-> k]

\* Dual::from
Dual(matroid) == [type |-> "Dual", matroid |-> matroid]

\* Elongate::new
Elongate(matroid, elongation) ==
    [type |-> "Elongate", matroid |-> matroid, elongation |-> elongation]

\* MatrixMatroid::from
Reduced(reduced) ==
    [type |-> "MatrixMatroid", matrix |-> reduced, rank |-> matrix_rank(reduced)]

MatrixMatroid(matrix) == Reduced(gauss_jordan(matrix))

\* BasesMatroid::rank_of_subset_given_bases.  The loop keeps the largest
\* intersection seen and breaks once that equals the size of the base at hand;
\* the bases of one list have one size, so no later base could exceed it and
\* the result is the largest intersection over the whole list (0 for no base).
rank_of_subset_given_bases(subset, bases) ==
    LET sizes == {size(intersect(base, subset)) : base \in bases} IN
    IF sizes = {} THEN 0 ELSE Max(sizes)

\* the five circuits of cardinality 4 in vamos.rs
VamosCircuits == {SetOf(57), SetOf(201), SetOf(15), SetOf(198), SetOf(54)}

\* fn is_independent of vamos.rs deciding by the size alone
vamos_is_independent_by_size(subset) == size(subset) <= 4

\* fn is_independent of vamos.rs
vamos_is_independent(subset) ==
    IF size(subset) < 4 THEN TRUE
    ELSE IF size(subset) > 4 THEN FALSE
    ELSE subset \notin VamosCircuits

\* Vamos::new
Vamos ==
    [type |-> "Vamos",
     bases |-> {b \in Range(CollectSets(WithPolicy(SizeLimitOf(IterNew(8), 4), "Equal"))) :
                   vamos_is_independent(b)}]

\* the variants that wrap another matroid
Wrappers == {"Dual", "Elongate"}

\* Matroid::n
RECURSIVE N(_)
N(m) ==
    IF m.type \in Wrappers THEN N(m.matroid)
    ELSE CASE m.type = "UniformMatroid" -> m.n
           [] m.type = "BasesMatroid" -> m.n
           [] m.type = "Vamos" -> 8
           [] m.type = "MatrixMatroid" -> m.matrix.num_cols
           [] m.type = "CombinatorialDerived" -> Len(m.elements)

\* Matroid::k
RECURSIVE K(_)
K(m) ==
    IF m.type \in Wrappers
    THEN (IF m.type = "Dual" THEN N(m.matroid) ELSE m.elongation)
         + (IF m.type = "Dual" THEN -1 ELSE 1) * K(m.matroid)
    ELSE CASE m.type = "UniformMatroid" -> m.k
           [] m.type = "BasesMatroid" -> m.k
           [] m.type = "Vamos" -> 4
           [] m.type = "MatrixMatroid" -> m.rank
           [] m.type = "CombinatorialDerived" -> m.rank

Min2(a, b) == IF a < b THEN a ELSE b

\* Elongate::rank without the comparison of the nullity against the elongation
ElongateRankDropLimit(r, elongation, subset) == r + elongation

\* Elongate::rank, r the wrapped matroid's rank of the subset
ElongateRank(r, elongation, subset) ==
    LET nullity == size(subset) - r IN
    IF nullity > elongation THEN r + elongation ELSE size(subset)

\* Dual::rank read as the wrapped matroid's rank of the complement alone
DualRankOfComplement(r, k, subset) == r

\* Dual::rank, r the wrapped matroid's rank of the complement of the subset
DualRank(r, k, subset) == r + size(subset) - k

\* the rank of a wrapper, r the rank the wrapped matroid returned
WrapperRank(m, r, subset) ==
    IF m.type = "Dual" THEN DualRank(r, K(m.matroid), subset)
    ELSE ElongateRank(r, m.elongation, subset)

\* Matroid::rank; a wrapper asks the matroid it wraps first, Dual about the
\* complement of the subset, Elongate about the subset
RECURSIVE rank(_, _)
rank(m, subset) ==
    IF m.type \in Wrappers
    THEN WrapperRank(m,
                     rank(m.matroid,
                          IF m.type = "Dual"
                          THEN difference(of_size(N(m.matroid)), subset)
                          ELSE subset),
                     subset)
    ELSE CASE m.type = "UniformMatroid" -> Min2(size(subset), m.k)
           [] m.type = "BasesMatroid" -> rank_of_subset_given_bases(subset, m.bases)
           [] m.type = "Vamos" ->
                 IF size(subset) < 4 THEN size(subset)
                 ELSE rank_of_subset_given_bases(subset, m.bases)
           [] m.type = "MatrixMatroid" ->
                 matrix_rank(gauss_jordan(subset_matrix(m.matrix, subset)))
           [] m.type = "CombinatorialDerived" ->
                 IF size(subset) < 3 THEN size(subset)
                 ELSE rank_of_subset_given_bases(subset, m.bases)

\* Matroid::nullity
nullity(m, subset) ==
    IF size(subset) = N(m) THEN N(m) - K(m) ELSE size(subset) - rank(m, subset)

\* corank() asking the rank of the subset, not of its complement
corank_of_subset(m, subset) == size(subset) + rank(m, subset) - K(m)

\* Matroid::corank
corank(m, subset) ==
    size(subset) + rank(m, difference(of_size(N(m)), subset)) - K(m)

\* Matroid::is_cycle
is_cycle(m, subset) ==
    IF is_empty(subset) THEN FALSE
    ELSE \A i \in 0..(N(m) - 1) : rank(m, remove_element(subset, i)) = rank(m, subset)

\* is_circuit without the cycle test
is_circuit_by_nullity(m, subset) == size(subset) - rank(m, subset) = 1

\* Matroid::is_circuit
is_circuit(m, subset) ==
    size(subset) - rank(m, subset) = 1 /\ is_cycle(m, subset)

\* Matroid::is_independent, and its override for Vamos
is_independent(m, subset) ==
    IF m.type = "Vamos" THEN vamos_is_independent(subset)
    ELSE rank(m, subset) = size(subset)

\* Matroid::circuits
circuits(m) ==
    LET Keep(set) == is_circuit(m, set) IN
    SelectSeq(CollectSets(WithPolicy(SizeLimitOf(IterNew(N(m)), K(m) + 1), "LessEqual")), Keep)

\* Matroid::par_circuits: one entry per pass of the for loop, the circuits of
\* that cardinality; the workers of par_bridge push them in no fixed order, so
\* an entry is the set of what they push
par_circuits(m) ==
    [circuit_cardinality \in 1..(K(m) + 1) |->
        {set \in Range(CollectSets(WithPolicy(SizeLimitOf(IterNew(N(m)), circuit_cardinality), "Equal"))) :
            is_circuit(m, set)}]

\* Matroid::independents
independents(m) ==
    LET Keep(set) == is_independent(m, set) IN
    SelectSeq(CollectSets(WithPolicy(SizeLimitOf(IterNew(N(m)), K(m)), "LessEqual")), Keep)

\* bases() enumerating the subsets of at most k elements
default_bases_smaller_equal(m) ==
    LET Keep(set) == is_independent(m, set) IN
    SelectSeq(CollectSets(WithPolicy(SizeLimitOf(IterNew(N(m)), K(m)), "LessEqual")), Keep)

\* Matroid::bases as the trait provides it
default_bases(m) ==
    LET Keep(set) == is_independent(m, set) IN
    SelectSeq(CollectSets(WithPolicy(SizeLimitOf(IterNew(N(m)), K(m)), "Equal")), Keep)

\* the members of Matroid::bases; CombinatorialDerived returns its own list
bases(m) ==
    IF m.type = "CombinatorialDerived" THEN m.bases ELSE Range(default_bases(m))

\* num_integer's binomial
RECURSIVE binomial(_, _)
binomial(n, k) ==
    IF k > n THEN 0
    ELSE IF k = 0 THEN 1
    ELSE (binomial(n - 1, k - 1) * n) \div k

\* Matroid::is_uniform, and its overrides; the bases the enumerator yields are
\* distinct, so the list is as long as its set of members is large
is_uniform(m) ==
    CASE m.type = "UniformMatroid" -> TRUE
      [] m.type = "Vamos" -> FALSE
      [] OTHER -> Cardinality(bases(m)) = binomial(N(m), K(m))

\* Matroid::is_equal
is_equal(self, other) ==
    IF N(self) # N(other) \/ K(self) # K(other) THEN FALSE
    ELSE \A set \in Range(CollectSets(IterNew(N(self)))) :
            is_independent(self, set) = is_independent(other, set)

\* Matroid::fundamental_circuit: <<TRUE, circuit>> or <<FALSE, {}>> for None
\* find() returning the last circuit within c, not the first
LastWithin(cs, c) ==
    LET hits == {x \in 1..Len(cs) : SetLe(cs[x], c)} IN
    IF hits = {} THEN <<FALSE, {}>>
    ELSE <<TRUE, cs[CHOOSE x \in hits : \A y \in hits : x >= y]>>

\* the find over the list of circuits cs: the first one that is <= c
FirstWithin(cs, c) ==
    LET hits == {x \in 1..Len(cs) : SetLe(cs[x], c)} IN
    IF hits = {} THEN <<FALSE, {}>>
    ELSE <<TRUE, cs[CHOOSE x \in hits : \A y \in hits : x <= y]>>

fundamental_circuit(m, e, basis) == FirstWithin(circuits(m), add_element(basis, e))

\* Matroid::restrict
\* restrict() testing the sub-selections themselves, not their extensions
RestrictToUnextended(m, element, n, k) ==
    BasesMatroid({s \in Range(CollectSets(WithPolicy(SizeLimitOf(IterNew(n), k), "Equal"))) :
                     is_independent(m, s)},
                 n, k)

\* the body of restrict, n and k the size and the rank of element
RestrictTo(m, element, n, k) ==
    BasesMatroid({s \in Range(CollectSets(WithPolicy(SizeLimitOf(IterNew(n), k), "Equal"))) :
                     is_independent(m, extend(s, element))},
                 n, k)

restrict(m, element) == RestrictTo(m, element, size(element), rank(m, element))

(***************************************************************************)
(* The combinatorial derived matroid                                        *)
(* (src/src/matroid/combinatorial_derived.rs).  Its elements are the        *)
(* circuits of the source matroid, in the order circuits() lists them; a    *)
(* Set of the derived matroid holds indices into that list.  The families   *)
(* of dependent sets are Vecs filled by the workers of par_bridge and read  *)
(* back from a DashSet, so their order is arbitrary; none of them holds a   *)
(* Set twice, and the functions below go over all members or all pairs of   *)
(* members, so a family is modelled by the set of its members.              *)
(***************************************************************************)
\* struct CombinatorialDerived
CombinatorialDerived(derived_rank, elements, found) ==
    [type |-> "CombinatorialDerived", rank |-> derived_rank, elements |-> elements, bases |-> found]

\* what a derivation returns: the matroid, or a panic
Derived(m) == [panics |-> FALSE, matroid |-> m]
DerivedPanic == [panics |-> TRUE, matroid |-> [type |-> "None"]]

\* EpsilonOfPair leaving out the pairs that share 3 or more elements
EpsilonOfPairSmall(dependents, derived_rank, a, b, common) ==
    IF size(a) + size(b) - size(common) - 1 > derived_rank THEN {}
    ELSE IF size(common) < 3 /\ size(common) > 0
         THEN {set \in {difference(union(a, b), extend(SetOf(Shl(1, count)), common)) :
                           count \in 0..(size(common) - 1)} : size(set) <= derived_rank}
         ELSE {}

\* the body of the inner loop of epsilon for dependents[i] = a and
\* dependents[j] = b, common their intersection: the sets it inserts
EpsilonOfPair(dependents, derived_rank, a, b, common) ==
    IF size(a) + size(b) - size(common) - 1 > derived_rank THEN {}
    ELSE IF \/ size(common) < 3 /\ size(common) > 0
            \/ size(common) >= 3 /\ ~\E d \in dependents : SetLe(d, common)
         THEN {set \in {difference(union(a, b), extend(SetOf(Shl(1, count)), common)) :
                           count \in 0..(size(common) - 1)} :
                  size(set) <= derived_rank}
         ELSE {}

\* fn epsilon on a family that is not empty: every member, and what the pairs
\* i < j insert; the pair (j, i) would insert the same sets
epsilon(dependents, derived_rank) ==
    dependents
    \cup UNION {EpsilonOfPair(dependents, derived_rank, p[1], p[2], intersect(p[1], p[2])) :
                   p \in {q \in dependents \X dependents : q[1] # q[2]}}

\* bases_from_dependents keeping every subset of derived_rank elements
bases_from_dependents_all(dependents, num_points, derived_rank) ==
    Range(CollectSets(WithPolicy(SizeLimitOf(IterNew(num_points), derived_rank), "Equal")))

\* bases_from_dependents with < for <=
bases_from_dependents_proper(dependents, num_points, derived_rank) ==
    {subset \in Range(CollectSets(WithPolicy(SizeLimitOf(IterNew(num_points), derived_rank),
                                              "Equal"))) :
        ~\E dependent \in dependents : SetLt(dependent, subset)}

\* fn bases_from_dependents
bases_from_dependents(dependents, num_points, derived_rank) ==
    {subset \in Range(CollectSets(WithPolicy(SizeLimitOf(IterNew(num_points), derived_rank), "Equal"))) :
        ~\E dependent \in dependents : SetLe(dependent, subset)}

\* the fold of initial_dependents_support_limit: the union of the points the
\* subset selects
CircuitUnion(points, subset) ==
    UNION {points[i + 1] : i \in {j \in 0..(Len(points) - 1) : contains_element(subset, j)}}

\* fn initial_dependents_support_limit
initial_dependents_support_limit(matroid, points, upper_derived_rank) ==
    UNION {{subset \in Range(CollectSets(WithPolicy(SizeLimitOf(IterNew(Len(points)),
                                                                  subset_size), "Equal"))) :
               size(subset) > nullity(matroid, CircuitUnion(points, subset))} :
           subset_size \in 3..upper_derived_rank}

\* inclusion_minimal keeping every subset
inclusion_minimal_kept(subsets) == subsets

\* fn inclusion_minimal
inclusion_minimal(subsets) ==
    {subset \in subsets : size(subset) = 3 \/ ~\E b \in subsets : SetLt(b, subset)}

\* the test of from_fast_matroid asking for a nullity above the size
FastTestStrict(matroid, elements, extended) ==
    nullity(matroid, union_of_sets(extended, elements)) > size(extended)

\* the test of the filter of from_fast_matroid on one extended sub-selection
FastTest(matroid, elements, extended) ==
    nullity(matroid, union_of_sets(extended, elements)) >= size(extended)

\* the filter of from_fast_matroid
FastKeep(matroid, elements, set) ==
    \A subset \in Range(CollectSets(WithPolicy(SizeLimitOf(IterNew(size(set)), 3),
                                               "GreaterEqual"))) :
        FastTest(matroid, elements, extend(subset, set))

\* from_fast_matroid enumerating the subsets of at most derived_rank elements
FromFastSmallerEqual(matroid, derived_rank, elements) ==
    CombinatorialDerived(
        derived_rank, elements,
        {set \in Range(CollectSets(WithPolicy(SizeLimitOf(IterNew(Len(elements)), derived_rank),
                                              "LessEqual"))) :
            FastKeep(matroid, elements, set)})

\* the body of from_fast_matroid, elements the circuits of the matroid
FromFast(matroid, derived_rank, elements) ==
    CombinatorialDerived(
        derived_rank, elements,
        {set \in Range(CollectSets(WithPolicy(SizeLimitOf(IterNew(Len(elements)), derived_rank),
                                              "Equal"))) :
            FastKeep(matroid, elements, set)})

\* CombinatorialDerived::from_fast_matroid
from_fast_matroid(matroid) == Derived(FromFast(matroid, N(matroid) - K(matroid), circuits(matroid)))

\* the while loop of from_non_fast_matroid that lowers the rank until some
\* subset of that size holds no dependent set; found is what
\* bases_from_dependents returned for the rank
RECURSIVE BasesLoop(_, _, _, _)
BasesLoop(dependents, elements, derived_rank, found) ==
    IF found # {} THEN Derived(CombinatorialDerived(derived_rank, elements, found))
    ELSE IF derived_rank = 0 THEN DerivedPanic
    ELSE BasesLoop(dependents, elements, derived_rank - 1,
                   bases_from_dependents(dependents, Len(elements), derived_rank - 1))

\* the closure loop of from_non_fast_matroid: epsilon, then inclusion_minimal,
\* until the family is as large as it was; epsilon panics on the empty family
\* (dependents.len() - 1 goes below zero, or dependents[0] is out of bounds)
RECURSIVE ClosureLoop(_, _, _), ClosureTurn(_, _, _)
ClosureLoop(dependents, cardinality, derived_rank) ==
    IF dependents = {} THEN [panics |-> TRUE, dependents |-> {}]
    ELSE ClosureTurn(inclusion_minimal(epsilon(dependents, derived_rank)), cardinality, derived_rank)

ClosureTurn(dependents, cardinality, derived_rank) ==
    IF Cardinality(dependents) = cardinality THEN [panics |-> FALSE, dependents |-> dependents]
    ELSE ClosureLoop(dependents, Cardinality(dependents), derived_rank)

\* from_non_fast_matroid from the closed family on
FromClosed(closed, elements, derived_rank) ==
    IF closed.panics THEN DerivedPanic
    ELSE BasesLoop(closed.dependents, elements, derived_rank,
                   bases_from_dependents(closed.dependents, Len(elements), derived_rank))

\* from_non_fast_matroid from the seed family on
FromSeed(seed, elements, derived_rank) ==
    FromClosed(ClosureLoop(seed, Cardinality(seed), derived_rank), elements, derived_rank)

\* the body of from_non_fast_matroid, elements the circuits of the matroid
FromNonFast(matroid, derived_rank, elements) ==
    FromSeed(inclusion_minimal(initial_dependents_support_limit(matroid, elements, derived_rank)),
             elements, derived_rank)

\* CombinatorialDerived::from_non_fast_matroid
from_non_fast_matroid(matroid) == FromNonFast(matroid, N(matroid) - K(matroid), circuits(matroid))

\* CombinatorialDerived::from_matroid, Matroid::combinatorial_derived
from_matroid(matroid) ==
    IF is_uniform(matroid) \/ N(matroid) <= 3 THEN from_fast_matroid(matroid)
    ELSE from_non_fast_matroid(matroid)

(***************************************************************************)
(* The matroids of src/src/matroid/examples.rs and of the crate's           *)
(* documentation.                                                           *)
(***************************************************************************)
\* examples::matroid_1; the listed elements are shifted down by one
matroid_1 ==
    BasesMatroid(
        {{0, 2, 3, 5, 6}, {0, 1, 2, 5, 7}, {0, 1, 2, 3, 7}, {0, 1, 2, 4, 7},
         {0, 1, 4, 5, 7}, {0, 1, 2, 3, 6}, {0, 1, 2, 4, 6}, {0, 1, 4, 5, 6},
         {0, 2, 3, 4, 6}, {0, 2, 3, 5, 7}, {0, 1, 3, 5, 7}, {0, 1, 3, 5, 6},
         {0, 2, 3, 4, 7}, {0, 1, 3, 4, 6}, {0, 3, 4, 5, 6}, {0, 1, 2, 5, 6},
         {0, 2, 4, 5, 6}, {0, 3, 4, 5, 7}, {0, 2, 4, 5, 7}, {0, 1, 3, 4, 7}},
        8, 5)

\* examples::matroid_2
matroid_2 ==
    BasesMatroid(
        {{0, 2, 3, 5, 6}, {0, 1, 2, 3, 7}, {0, 1, 2, 4, 7}, {0, 1, 4, 5, 7},
         {0, 1, 2, 3, 6}, {0, 1, 2, 4, 6}, {0, 1, 4, 5, 6}, {0, 2, 3, 4, 6},
         {0, 2, 3, 5, 7}, {0, 1, 3, 5, 7}, {0, 1, 3, 5, 6}, {0, 2, 3, 4, 7},
         {0, 1, 3, 4, 6}, {0, 2, 3, 4, 5}, {0, 1, 3, 4, 5}, {0, 2, 4, 5, 6},
         {0, 1, 2, 4, 5}, {0, 1, 2, 3, 5}, {0, 2, 4, 5, 7}, {0, 1, 3, 4, 7}},
        8, 5)

\* examples::non_fast_matroid: the pairs that hold none of the parallel edges
\* 3 << (i * 2), i in 0..3
non_fast_matroid ==
    BasesMatroid(
        {set \in Range(CollectSets(WithPolicy(SizeLimitOf(IterNew(6), 2), "Equal"))) :
            ~\E i \in 0..2 : SetLe(SetOf(Shl(3, i * 2)), set)},
        6, 2)

\* the generator matrix of Ham(7, 4) of the crate documentation, as a matroid
Ham74 ==
    MatrixMatroid(from_rows(<< <<1, 0, 0, 0, 0, 1, 1>>,
                               <<0, 1, 0, 0, 1, 0, 1>>,
                               <<0, 0, 1, 0, 1, 1, 0>>,
                               <<0, 0, 0, 1, 1, 1, 1>> >>))

(***************************************************************************)
(* The matroids the methods are exercised on.                               *)
(***************************************************************************)
Uniforms == UNION {{UniformMatroid(k, n) : k \in 0..n} : n \in 0..MaxN}

Plain == Uniforms \cup {matroid_1, matroid_2, non_fast_matroid, Vamos, Ham74}

\* the matroids ms, their duals and their elongations
Duals(ms) == {Dual(m) : m \in ms}
Elongations(ms) == {Elongate(m, l) : m \in ms, l \in 1..MaxElong}
Wrapped(ms) == ms \cup Duals(ms) \cup Elongations(ms)

Catalog == Wrapped(Plain)

\* no matroid at hand, nothing called yet
NoMatroid == [type |-> "None"]
NoResult == [called |-> {}]

\* a specification that leaves the enumerator alone starts it like this
IterIdle ==
    /\ it = IterNew(0)
    /\ built = <<"new", 0, 0>>
    /\ yielded = <<>>
    /\ nones = 0

(***************************************************************************)
(* The trait methods called on a matroid: circuits(), then par_circuits(), *)
(* then bases(); none of them changes the matroid.                          *)
(***************************************************************************)
InitMatroid ==
    /\ mat \in Catalog
    /\ picked = {}
    /\ result = [called |-> {}, circuits |-> <<>>, par_circuits |-> <<>>, bases |-> <<>>]
    /\ IterIdle

CallCircuits ==
    /\ result.called = {}
    /\ result' = [result EXCEPT !.called = @ \cup {"circuits"}, !.circuits = circuits(mat)]
    /\ UNCHANGED <<mat, picked, iterVars>>

CallParCircuits ==
    /\ result.called = {"circuits"}
    /\ result' = [result EXCEPT !.called = @ \cup {"par_circuits"},
                                !.par_circuits = par_circuits(mat)]
    /\ UNCHANGED <<mat, picked, iterVars>>

CallBases ==
    /\ result.called = {"circuits", "par_circuits"}
    /\ result' = [result EXCEPT !.called = @ \cup {"bases"}, !.bases = default_bases(mat)]
    /\ UNCHANGED <<mat, picked, iterVars>>

NextMatroid == CallCircuits \/ CallParCircuits \/ CallBases

SpecMatroid == InitMatroid /\ [][NextMatroid]_vars

(***************************************************************************)
(* The enumerator driven on its own: every builder chain, then next()      *)
(* until it has returned None MaxNones times.                              *)
(***************************************************************************)
Builders == {"new", "size_limit"} \cup Policies

BuildIter(b, n, limit) ==
    IF b = "new" THEN IterNew(n)
    ELSE IF b = "size_limit" THEN SizeLimitOf(IterNew(n), limit)
    ELSE WithPolicy(SizeLimitOf(IterNew(n), limit), b)

InitIter ==
    /\ \E b \in Builders, n \in 0..MaxSetN, limit \in 0..(MaxSetN + 1) :
          /\ (b = "new" => limit = 0)
          /\ limit <= n + 1
          /\ built = <<b, n, limit>>
          /\ it = BuildIter(b, n, limit)
    /\ yielded = <<>>
    /\ nones = 0
    /\ mat = NoMatroid
    /\ picked = {}
    /\ result = NoResult

\* one call of next()
Returned(r) ==
    /\ it' = r.it
    /\ yielded' = IF r.some THEN Append(yielded, r.val) ELSE yielded
    /\ nones' = IF r.some THEN nones ELSE nones + 1

CallNext ==
    /\ nones < MaxNones
    /\ Returned(IterNextOf(it))
    /\ UNCHANGED <<built, mat, picked, result>>

NextIter == CallNext

SpecIter == InitIter /\ [][NextIter]_vars

(***************************************************************************)
(* What an enumeration is meant to produce, stated without the iterator.   *)
(***************************************************************************)
\* the elements of the picked of {0..n-1} that the word w denotes
ElemsOf(w, n) == {e \in 0..(n - 1) : (w \div (2 ^ e)) % 2 = 1}

\* the finite set of numbers S as an ascending sequence
Ascending(S) ==
    [k \in 1..Cardinality(S) |->
        CHOOSE x \in S : Cardinality({y \in S : y < x}) = k - 1]

\* whether a picked of cardinality z is wanted under policy p with target c
Wanted(p, z, c) ==
    CASE p = "Less" -> z < c
      [] p = "LessEqual" -> z <= c
      [] p = "Equal" -> z = c
      [] p = "GreaterEqual" -> z >= c
      [] p = "Greater" -> z > c
      [] OTHER -> TRUE

\* the scan of all 2^n words that keeps the wanted ones
FilteredScan(p, n, c) ==
    Ascending({w \in 0..(2 ^ n - 1) : Wanted(p, Cardinality(ElemsOf(w, n)), c)})

IsPrefix(s, t) ==
    /\ Len(s) <= Len(t)
    /\ \A k \in 1..Len(s) : s[k] = t[k]

StrictlyIncreasing(s) == \A k \in 1..(Len(s) - 1) : s[k] < s[k + 1]

RECURSIVE Binomial(_, _)
Binomial(n, k) ==
    IF k < 0 \/ k > n THEN 0
    ELSE IF k = 0 \/ k = n THEN 1
    ELSE Binomial(n - 1, k - 1) + Binomial(n - 1, k)

\* the run so far agrees with the expected sequence, and is all of it once
\* None has been returned
RunMatches(expected) ==
    /\ IsPrefix(yielded, expected)
    /\ (nones > 0 => yielded = expected)

(***************************************************************************)
(* C1: for 0 <= c <= n, SetIterator::new(n).size_limit(c).equal() yields   *)
(* exactly the C(n,c) words of population count c, each once, strictly     *)
(* increasing, from 2^c - 1 to the highest c bits, and then None: the same *)
(* sequence as the scan of all 2^n words filtered by cardinality c.        *)
(***************************************************************************)
C1_EqualEnumeration ==
    (built[1] = "Equal" /\ built[3] <= built[2]) =>
        LET n == built[2]
            c == built[3]
            expected == FilteredScan("Equal", n, c)
        IN  /\ RunMatches(expected)
            /\ StrictlyIncreasing(yielded)
            /\ \A k \in 1..Len(yielded) : Cardinality(ElemsOf(yielded[k], n)) = c
            /\ (Len(yielded) >= 1 => yielded[1] = 2 ^ c - 1)
            /\ (nones > 0 =>
                   /\ Len(yielded) = Binomial(n, c)
                   /\ yielded[Len(yielded)] = (2 ^ c - 1) * 2 ^ (n - c))

\* an exact-cardinality run on 5 elements that has yielded all 10 words of
\* cardinality 2 and has reported exhaustion
C1_Witness ==
    /\ built = <<"Equal", 5, 2>>
    /\ Len(yielded) = 10
    /\ nones > 0

(***************************************************************************)
(* C2: with no policy, SetIterator::new(n) yields all 2^n words ascending, *)
(* the empty set first, each once, and then None for ever; with a target c *)
(* and a policy in {<, <=, >=, >} it yields exactly the words whose        *)
(* cardinality compares so against c, ascending, and nothing when none     *)
(* qualifies.                                                              *)
(***************************************************************************)
C2_ScanEnumeration ==
    /\ built[1] = "new" =>
          /\ RunMatches([k \in 1..(2 ^ built[2]) |-> k - 1])
          /\ (nones > 0 => Len(yielded) = 2 ^ built[2])
    /\ built[1] \in (Policies \ {"Equal"}) =>
          /\ RunMatches(FilteredScan(built[1], built[2], built[3]))
          /\ StrictlyIncreasing(yielded)

\* a filtered scan (cardinality >= 3 on 4 elements) that has skipped words,
\* yielded the 5 that qualify, and returned None more than once
C2_Witness ==
    /\ built = <<"GreaterEqual", 4, 3>>
    /\ yielded = <<7, 11, 13, 14, 15>>
    /\ nones = MaxNones

\* the ground set of a matroid and the words of a list of Sets
Ground(m) == 0..(N(m) - 1)
Words(sets) == [x \in 1..Len(sets) |-> Content(sets[x])]

\* rank(X) < |X| and every proper subset of X independent
MinimalDependent(m) ==
    {X \in SUBSET Ground(m) :
        /\ rank(m, X) < Cardinality(X)
        /\ \A Y \in (SUBSET X) \ {X} : rank(m, Y) = Cardinality(Y)}

(***************************************************************************)
(* C3: circuits() returns, ascending by word and so without repetition,    *)
(* exactly the minimal dependent subsets of the ground set (rank(X) < |X|, *)
(* every proper subset independent); a non-empty X is one of them iff      *)
(* is_cycle(X) and |X| - rank(X) = 1; none has more than k + 1 elements.   *)
(***************************************************************************)
C3_CircuitsAreMinimalDependent ==
    "circuits" \in result.called =>
        LET minimal == MinimalDependent(mat) IN
        /\ StrictlyIncreasing(Words(result.circuits))
        /\ Range(result.circuits) = minimal
        /\ \A X \in (SUBSET Ground(mat)) \ {{}} :
              (X \in minimal) <=> (is_cycle(mat, X) /\ Cardinality(X) - rank(mat, X) = 1)
        /\ \A X \in minimal : Cardinality(X) <= K(mat) + 1

C3_Witness ==
    /\ mat = Vamos
    /\ "circuits" \in result.called
    /\ Len(result.circuits) = 41
    /\ SetOf(15) \in Range(result.circuits)

\* the members of what par_circuits() returned
ParMembers == UNION Range(result.par_circuits)

(***************************************************************************)
(* C4: on a matroid with 0 <= k <= n, circuits() and par_circuits() return *)
(* the same circuits, compared as sets.                                    *)
(***************************************************************************)
C4_ParCircuitsAgree ==
    ({"circuits", "par_circuits"} \subseteq result.called /\ 0 <= K(mat) /\ K(mat) <= N(mat))
        => Range(result.circuits) = ParMembers

\* all subsets of 0..n-1 with c elements
Subsets(n, c) == {X \in SUBSET (0..(n - 1)) : Cardinality(X) = c}

(***************************************************************************)
(* C5: UniformMatroid::new(k, n), 0 <= k <= n, has exactly C(n, k) bases,  *)
(* all subsets of k elements, and exactly C(n, k+1) circuits, all subsets  *)
(* of k + 1 elements (none when k = n).                                    *)
(***************************************************************************)
C5_UniformCounts ==
    (mat.type = "UniformMatroid" /\ mat.k <= mat.n) =>
        /\ "bases" \in result.called =>
              /\ Len(result.bases) = Binomial(mat.n, mat.k)
              /\ Range(result.bases) = Subsets(mat.n, mat.k)
        /\ "circuits" \in result.called =>
              /\ Len(result.circuits) = Binomial(mat.n, mat.k + 1)
              /\ Range(result.circuits) = Subsets(mat.n, mat.k + 1)
              /\ (mat.k = mat.n => result.circuits = <<>>)

C5_Witness ==
    /\ mat = UniformMatroid(2, 4)
    /\ {"bases", "circuits"} \subseteq result.called
    /\ Len(result.bases) = 6
    /\ Len(result.circuits) = 4

(***************************************************************************)
(* Subtraction on usize.  A difference below zero panics where overflow     *)
(* checks are on (the dev and test profiles) and wraps modulo 2^64 where    *)
(* they are off (the release profile).  rank, K and nullity above compute   *)
(* on the integers; their values are congruent modulo 2^64 to what the      *)
(* wrapping build computes.  The operators below tell whether a call        *)
(* subtracts below zero at all.                                             *)
(***************************************************************************)
\* whether m.k() subtracts below zero: Dual::k is n - k of the wrapped matroid
RECURSIVE KUnderflows(_)
KUnderflows(m) ==
    /\ m.type \in Wrappers
    /\ \/ KUnderflows(m.matroid)
       \/ m.type = "Dual" /\ N(m.matroid) < K(m.matroid)

\* whether m.rank(subset) subtracts below zero: Dual::rank is
\* rank(complement) + |subset| - k, Elongate::rank starts with |subset| - r
RECURSIVE RankUnderflows(_, _)
RankUnderflows(m, subset) ==
    /\ m.type \in Wrappers
    /\ IF m.type = "Dual"
       THEN \/ RankUnderflows(m.matroid, difference(of_size(N(m.matroid)), subset))
            \/ KUnderflows(m.matroid)
            \/ rank(m.matroid, difference(of_size(N(m.matroid)), subset)) + size(subset)
                   < K(m.matroid)
       ELSE \/ RankUnderflows(m.matroid, subset)
            \/ size(subset) < rank(m.matroid, subset)

\* whether is_independent(set) subtracts below zero; Vamos does not ask rank
IndependentUnderflows(m, set) == m.type # "Vamos" /\ RankUnderflows(m, set)

\* what a call returns: a value, or a panic
Value(v) == [panics |-> FALSE, value |-> v]
Panic == [panics |-> TRUE, value |-> FALSE]

MinOr(S, d) == IF S = {} THEN d ELSE CHOOSE x \in S : \A y \in S : x <= y

\* the scan of is_equal stops at the first set on which the two matroids
\* disagree or a rank subtracts below zero; 0 when it runs to its end
FirstStop(self, other, sets) ==
    MinOr({x \in 1..Len(sets) :
              \/ IndependentUnderflows(self, sets[x])
              \/ IndependentUnderflows(other, sets[x])
              \/ is_independent(self, sets[x]) # is_independent(other, sets[x])}, 0)

\* what the scan of is_equal returns when it stops at sets[x]
ScanOutcome(self, other, sets, x) ==
    IF x = 0 THEN Value(TRUE)
    ELSE IF IndependentUnderflows(self, sets[x]) \/ IndependentUnderflows(other, sets[x])
         THEN Panic
         ELSE Value(FALSE)

IsEqualScan(self, other, sets) == ScanOutcome(self, other, sets, FirstStop(self, other, sets))

\* Matroid::is_equal with overflow checks on
is_equal_checked(self, other) ==
    IF N(self) # N(other) THEN Value(FALSE)
    ELSE IF KUnderflows(self) \/ KUnderflows(other) THEN Panic
    ELSE IF K(self) # K(other) THEN Value(FALSE)
    ELSE IsEqualScan(self, other, CollectSets(IterNew(N(self))))

\* Matroid::is_equal under either build
IsEqualOutcome(self, other, overflow_checks) ==
    IF overflow_checks THEN is_equal_checked(self, other) ELSE Value(is_equal(self, other))

(***************************************************************************)
(* Duals: matroid.dual().dual() compared with the matroid (the test         *)
(* double_dual), and a uniform matroid's dual compared with the uniform     *)
(* matroid of the complementary rank (the test u26dual).                    *)
(***************************************************************************)
InitDual ==
    /\ mat \in Catalog
    /\ picked = {}
    /\ result = NoResult
    /\ IterIdle

\* let double_dual = Dual::from(&Dual::from(&matroid)); matroid.is_equal(&double_dual)
CallDoubleDual ==
    /\ result.called = {}
    /\ \E overflow_checks \in BOOLEAN :
          result' = [called |-> {"double_dual"},
                     overflow_checks |-> overflow_checks,
                     is_equal |-> IsEqualOutcome(mat, Dual(Dual(mat)), overflow_checks)]
    /\ UNCHANGED <<mat, picked, iterVars>>

\* Dual::from(&matroid).is_equal(&UniformMatroid::new(n - k, n)) on a uniform one
CallDualOfUniform ==
    /\ result.called = {}
    /\ mat.type = "UniformMatroid"
    /\ result' = [called |-> {"dual_of_uniform"},
                  is_equal |-> is_equal_checked(Dual(mat), UniformMatroid(mat.n - mat.k, mat.n))]
    /\ UNCHANGED <<mat, picked, iterVars>>

NextDual == CallDoubleDual \/ CallDualOfUniform

SpecDual == InitDual /\ [][NextDual]_vars

(***************************************************************************)
(* C11: for any matroid M, Dual(Dual(M)) is structurally equal to M: the   *)
(* comparison returns true, n and k are the same, and the rank of every    *)
(* subset is the same.                                                      *)
(***************************************************************************)
C11_DoubleDualIsEqual ==
    "double_dual" \in result.called =>
        /\ result.is_equal = Value(TRUE)
        /\ N(Dual(Dual(mat))) = N(mat)
        /\ K(Dual(Dual(mat))) = K(mat)
        /\ \A X \in SUBSET Ground(mat) : rank(Dual(Dual(mat)), X) = rank(mat, X)

(***************************************************************************)
(* C12: the dual of UniformMatroid::new(k, n), 0 <= k <= n, is structurally *)
(* equal to UniformMatroid::new(n - k, n): is_equal returns true, and the  *)
(* dual has rank n - k and the rank function min(|X|, n - k).               *)
(***************************************************************************)
C12_DualOfUniform ==
    ("dual_of_uniform" \in result.called /\ mat.k <= mat.n) =>
        /\ result.is_equal = Value(TRUE)
        /\ K(Dual(mat)) = mat.n - mat.k
        /\ \A X \in SUBSET Ground(mat) :
              /\ rank(Dual(mat), X) = Min2(Cardinality(X), mat.n - mat.k)
              /\ ~RankUnderflows(Dual(mat), X)

\* the dual of U(2,5) compared with U(3,5)
C12_Witness ==
    /\ mat = UniformMatroid(2, 5)
    /\ "dual_of_uniform" \in result.called
    /\ result.is_equal = Value(TRUE)

(***************************************************************************)
(* Set::extend called on two Sets over the elements 0..MaxSetN-1.           *)
(***************************************************************************)
\* the Sets handed to extend: picked = <<self, set>>
InitSet ==
    /\ picked \in (SUBSET (0..(MaxSetN - 1))) \X (SUBSET (0..(MaxSetN - 1)))
    /\ mat = NoMatroid
    /\ result = NoResult
    /\ IterIdle

\* Set::extend under either build: the debug_assert is compiled in or not
ExtendOutcome(self, set, debug_assertions) ==
    IF debug_assertions /\ ~(size(self) <= size(set)) THEN Panic
    ELSE [panics |-> FALSE, value |-> extend(self, set)]

CallExtend ==
    /\ result.called = {}
    /\ \E debug_assertions \in BOOLEAN :
          result' = [called |-> {"extend"},
                     extend |-> ExtendOutcome(picked[1], picked[2], debug_assertions)]
    /\ UNCHANGED <<mat, picked, iterVars>>

NextSet == CallExtend

SpecSet == InitSet /\ [][NextSet]_vars

\* the i-th element of t, counted from the lowest and from 0
NthElement(t, i) == CHOOSE e \in t : Cardinality({d \in t : d < e}) = i

(***************************************************************************)
(* C13: for every s and t with |s| <= |t|, s.extend(t) is the Set of the   *)
(* i-th elements of t, i ranging over the elements of s; it is a subset of *)
(* t and has exactly |s| elements.                                          *)
(***************************************************************************)
C13_ExtendSelects ==
    ("extend" \in result.called /\ Cardinality(picked[1]) <= Cardinality(picked[2])) =>
        /\ ~result.extend.panics
        /\ result.extend.value =
              {NthElement(picked[2], i) : i \in {j \in picked[1] : j < Cardinality(picked[2])}}
        /\ result.extend.value \subseteq picked[2]
        /\ Cardinality(result.extend.value) = Cardinality(picked[1])

(***************************************************************************)
(* restrict() called on a matroid with a subset of its ground set.          *)
(***************************************************************************)
InitRestrict ==
    /\ mat \in Catalog
    /\ picked = {}
    /\ result = NoResult
    /\ IterIdle

CallRestrict ==
    /\ result.called = {}
    /\ \E element \in SUBSET Ground(mat) :
          /\ picked' = element
          /\ result' = [called |-> {"restrict"}, restrict |-> restrict(mat, element)]
    /\ UNCHANGED <<mat, iterVars>>

NextRestrict == CallRestrict

SpecRestrict == InitRestrict /\ [][NextRestrict]_vars

\* the elements of S that the relabelled elements T stand for
Relabel(T, S) == {NthElement(S, i) : i \in T}

(***************************************************************************)
(* C14: restrict(S) is a matroid on |S| relabelled elements with k equal   *)
(* to the rank of S, in which a subset T of 0..|S|-1 is independent iff    *)
(* the elements of S it stands for are independent in M, and has the rank  *)
(* they have in M; a uniform matroid restricts to the uniform matroid of   *)
(* rank min(k, |S|) on |S| elements (U(3,6) to U(3,4), U(3,3), U(2,2)).    *)
(***************************************************************************)
C14_RestrictInduced ==
    "restrict" \in result.called =>
        /\ result.restrict.type = "BasesMatroid"
        /\ N(result.restrict) = Cardinality(picked)
        /\ K(result.restrict) = rank(mat, picked)
        /\ K(result.restrict) <= N(result.restrict)
        /\ \A b \in result.restrict.bases : Cardinality(b) = K(result.restrict)
        /\ \A T \in SUBSET (0..(Cardinality(picked) - 1)) :
              /\ is_independent(result.restrict, T) <=> is_independent(mat, Relabel(T, picked))
              /\ rank(result.restrict, T) = rank(mat, Relabel(T, picked))
        /\ mat.type = "UniformMatroid" =>
              is_equal(result.restrict,
                       UniformMatroid(Min2(mat.k, Cardinality(picked)), Cardinality(picked)))

\* U(3,6) restricted to the 4 elements 0b111010, the first case of the test
C14_Witness ==
    /\ mat = UniformMatroid(3, 6)
    /\ picked = {1, 3, 4, 5}
    /\ "restrict" \in result.called
    /\ result.restrict = BasesMatroid(Subsets(4, 3), 4, 3)

(***************************************************************************)
(* generalized_hamming_distance(h).  The result is an Option<usize>, or a   *)
(* panic where a subtraction goes below zero and overflow checks are on;    *)
(* where they are off the corank wraps to a value above every i - h and     *)
(* the subset is passed over.                                               *)
(***************************************************************************)
OptionSome(v) == [panics |-> FALSE, some |-> TRUE, value |-> v]
OptionNone == [panics |-> FALSE, some |-> FALSE, value |-> 0]
OptionPanic == [panics |-> TRUE, some |-> FALSE, value |-> 0]

\* whether corank(subset) subtracts below zero
CorankUnderflows(m, subset) ==
    \/ RankUnderflows(m, difference(of_size(N(m)), subset))
    \/ KUnderflows(m)
    \/ size(subset) + rank(m, difference(of_size(N(m)), subset)) < K(m)

\* the find of pass i stops at the first subset whose corank panics or is at
\* most i - h; 0 when it finds none
FindStop(m, h, i, overflow_checks, sets) ==
    MinOr({x \in 1..Len(sets) :
              IF CorankUnderflows(m, sets[x]) THEN overflow_checks
              ELSE corank(m, sets[x]) <= i - h}, 0)

RECURSIVE DistanceFrom(_, _, _, _)
RECURSIVE DistancePass(_, _, _, _, _)
RECURSIVE DistanceFound(_, _, _, _, _, _)

\* pass i after its find has stopped at sets[x]
DistanceFound(m, h, i, overflow_checks, sets, x) ==
    IF x = 0 THEN DistanceFrom(m, h, i + 1, overflow_checks)
    ELSE IF CorankUnderflows(m, sets[x]) THEN OptionPanic
    ELSE OptionSome(i)

\* pass i of the for loop, sets the subsets of i elements in order
DistancePass(m, h, i, overflow_checks, sets) ==
    DistanceFound(m, h, i, overflow_checks, sets, FindStop(m, h, i, overflow_checks, sets))

\* the for loop from pass i on
DistanceFrom(m, h, i, overflow_checks) ==
    IF i > N(m) THEN OptionNone
    ELSE DistancePass(m, h, i, overflow_checks,
                      CollectSets(WithPolicy(SizeLimitOf(IterNew(N(m)), i), "Equal")))

\* Matroid::generalized_hamming_distance
generalized_hamming_distance(m, h, overflow_checks) == DistanceFrom(m, h, h, overflow_checks)

InitDistance ==
    /\ mat \in Catalog
    /\ picked = {}
    /\ result = NoResult
    /\ IterIdle

CallDistance ==
    /\ result.called = {}
    /\ \E h \in 0..(N(mat) + 1), overflow_checks \in BOOLEAN :
          result' = [called |-> {"generalized_hamming_distance"},
                     h |-> h,
                     overflow_checks |-> overflow_checks,
                     distance |-> generalized_hamming_distance(mat, h, overflow_checks)]
    /\ UNCHANGED <<mat, picked, iterVars>>

NextDistance == CallDistance

SpecDistance == InitDistance /\ [][NextDistance]_vars

\* the cardinalities i in h..n at which some subset X of i elements has
\* |X| + rank(complement of X) - k <= i - h
Reaching(m, h) ==
    {i \in h..N(m) :
        \E X \in Subsets(N(m), i) : i + rank(m, Ground(m) \ X) - K(m) <= i - h}

(***************************************************************************)
(* C15: generalized_hamming_distance(h), h >= 1, returns the smallest i in *)
(* h..n at which some subset X of i elements has corank                    *)
(* |X| + rank(complement of X) - k <= i - h, and None when there is no     *)
(* such i; on U(3,7) it returns 5, 6, 7 and None for h = 1, 2, 3, 4.        *)
(***************************************************************************)
C15_DistanceIsSmallest ==
    ("generalized_hamming_distance" \in result.called /\ result.h >= 1) =>
        /\ result.distance =
              IF Reaching(mat, result.h) = {} THEN OptionNone
              ELSE OptionSome(MinOr(Reaching(mat, result.h), 0))
        /\ mat = UniformMatroid(3, 7) =>
              result.distance = CASE result.h = 1 -> OptionSome(5)
                                  [] result.h = 2 -> OptionSome(6)
                                  [] result.h = 3 -> OptionSome(7)
                                  [] OTHER -> OptionNone

(***************************************************************************)
(* fundamental_circuit(e, basis) called on a matroid; the state keeps the   *)
(* list self.circuits() returned inside the call next to the result.        *)
(***************************************************************************)
InitFundamental ==
    /\ mat \in Catalog
    /\ picked = {}
    /\ result = NoResult
    /\ IterIdle

\* the call once self.circuits() has returned cs; picked = <<e, basis>>
FundamentalOver(cs) ==
    \E e \in Ground(mat), basis \in SUBSET Ground(mat) :
        /\ picked' = <<e, basis>>
        /\ result' = [called |-> {"fundamental_circuit"},
                      circuits |-> cs,
                      fundamental_circuit |-> FirstWithin(cs, add_element(basis, e))]

CallFundamentalCircuit ==
    /\ result.called = {}
    /\ FundamentalOver(circuits(mat))
    /\ UNCHANGED <<mat, iterVars>>

NextFundamental == CallFundamentalCircuit

SpecFundamental == InitFundamental /\ [][NextFundamental]_vars

(***************************************************************************)
(* C16: fundamental_circuit(e, basis) returns the first circuit, in the    *)
(* order of circuits(), that is a subset of basis + {e}, and None when no  *)
(* circuit is one, as whenever e belongs to an independent basis.          *)
(***************************************************************************)
C16_FirstCircuitWithin ==
    "fundamental_circuit" \in result.called =>
        LET c == picked[2] \cup {picked[1]}
            within == {x \in 1..Len(result.circuits) : result.circuits[x] \subseteq c}
        IN  /\ within = {} => result.fundamental_circuit = <<FALSE, {}>>
            /\ within # {} =>
                  /\ result.fundamental_circuit[1]
                  /\ \E x \in within :
                        /\ result.fundamental_circuit[2] = result.circuits[x]
                        /\ \A y \in within : x <= y
            /\ (picked[1] \in picked[2] /\ rank(mat, picked[2]) = Cardinality(picked[2]))
                  => result.fundamental_circuit = <<FALSE, {}>>

\* element 3 against the independent set {0,1,2} of Vamos: the circuit 0b1111
C16_Witness ==
    /\ "fundamental_circuit" \in result.called
    /\ mat = Vamos
    /\ picked = <<3, {0, 1, 2}>>
    /\ result.fundamental_circuit = <<TRUE, {0, 1, 2, 3}>>

(***************************************************************************)
(* k() and nullity(subset) called on a matroid.  Where overflow checks are  *)
(* off a difference below zero wraps; the value kept is the integer it is   *)
(* congruent to modulo 2^64 (-1 stands for 2^64 - 1).                       *)
(***************************************************************************)
\* whether nullity(subset) subtracts below zero
NullityUnderflows(m, subset) ==
    IF size(subset) = N(m) THEN KUnderflows(m) \/ N(m) < K(m)
    ELSE RankUnderflows(m, subset) \/ size(subset) < rank(m, subset)

\* Matroid::nullity under either build
NullityOutcome(m, subset, overflow_checks) ==
    IF overflow_checks /\ NullityUnderflows(m, subset) THEN Panic
    ELSE [panics |-> FALSE, value |-> nullity(m, subset)]

InitNullity ==
    /\ mat \in Catalog
    /\ picked = {}
    /\ result = NoResult
    /\ IterIdle

CallNullity ==
    /\ result.called = {}
    /\ \E subset \in SUBSET Ground(mat), overflow_checks \in BOOLEAN :
          /\ picked' = subset
          /\ result' = [called |-> {"nullity"},
                        overflow_checks |-> overflow_checks,
                        nullity |-> NullityOutcome(mat, subset, overflow_checks)]
    /\ UNCHANGED <<mat, iterVars>>

NextNullity == CallNullity

SpecNullity == InitNullity /\ [][NextNullity]_vars

(***************************************************************************)
(* C17: on every matroid the library can construct, k() is the rank of the *)
(* full ground set, and nullity(X) returns |X| - rank(X) for every subset  *)
(* X, the full ground set included, where n - k does not go below zero.    *)
(***************************************************************************)
C17_NominalRankIsRank ==
    "nullity" \in result.called =>
        /\ K(mat) = rank(mat, Ground(mat))
        /\ ~result.nullity.panics
        /\ result.nullity.value = Cardinality(picked) - rank(mat, picked)

(***************************************************************************)
(* C18: the Vamos matroid has 8 elements and rank 4 (k() and the rank of   *)
(* the full ground set), and exactly 65 bases: every subset of 4 elements  *)
(* but the five circuits of 4 elements.                                     *)
(***************************************************************************)
C18_VamosBases ==
    ("bases" \in result.called /\ mat.type = "Vamos") =>
        /\ N(mat) = 8
        /\ K(mat) = 4
        /\ rank(mat, 0..7) = 4
        /\ Len(result.bases) = 65
        /\ Range(result.bases) =
              Subsets(8, 4) \ {{0, 1, 2, 3}, {0, 3, 4, 5}, {1, 2, 4, 5}, {0, 3, 6, 7}, {1, 2, 6, 7}}

\* bases() has returned on Vamos, {0,1,2,4} among the bases
C18_Witness ==
    /\ mat.type = "Vamos"
    /\ "bases" \in result.called
    /\ Len(result.bases) = 65
    /\ {0, 1, 2, 4} \in Range(result.bases)

(***************************************************************************)
(* C19: SetIterator::new(n).size_limit(s), with no policy method called    *)
(* after it, yields the subsets of 0..n-1 of at most s elements.            *)
(***************************************************************************)
C19_SizeLimitIsAtMost ==
    built[1] = "size_limit" =>
        /\ RunMatches(FilteredScan("LessEqual", built[2], built[3]))
        /\ \A x \in 1..Len(yielded) : Cardinality(ElemsOf(yielded[x], built[2])) <= built[3]

(***************************************************************************)
(* Ground sets as large as the word.  1 << n on a usize is 2^n for n below  *)
(* the width; from the width on the shift overflows: a panic where overflow *)
(* checks are on, and where they are off the shift is made by n modulo the  *)
(* width.  The iterator reads its n in 1 << self.n only, so without the     *)
(* checks it runs as the iterator over n modulo the width does.             *)
(***************************************************************************)
\* usize::BITS
WordBits == 64

\* the ground-set sizes tried: the small ones, the width, one more
WordSizes == (0..MaxSetN) \cup {WordBits, WordBits + 1}

\* Set::of_size under either build
OfSizeOutcome(n, overflow_checks) ==
    IF n >= WordBits /\ overflow_checks THEN Panic
    ELSE [panics |-> FALSE, value |-> of_size(n % WordBits)]

\* the result r of next() on the iterator over n modulo the width, as the
\* result of next() on the iterator over n
Unmasked(r, n) == [r EXCEPT !.it.n = n]

\* Iterator::next without overflow checks
NextWrapping(i) == Unmasked(IterNextOf([i EXCEPT !.n = i.n % WordBits]), i.n)

InitWord ==
    /\ \E n \in WordSizes : built = <<"new", n, 0>>
    /\ \E overflow_checks \in BOOLEAN :
          result = [called |-> {}, overflow_checks |-> overflow_checks,
                    new_panics |-> FALSE, next_panics |-> FALSE]
    /\ it = IterNew(0)
    /\ yielded = <<>>
    /\ nones = 0
    /\ mat = NoMatroid
    /\ picked = {}

\* Set::of_size(n)
CallOfSize ==
    /\ result.called = {}
    /\ result' = [result EXCEPT !.called = {"of_size"}]
    /\ picked' = OfSizeOutcome(built[2], result.overflow_checks)
    /\ UNCHANGED <<mat, iterVars>>

\* SetIterator::new(n): a panic when n > usize::BITS
CallNew ==
    /\ result.called = {}
    /\ result' = [result EXCEPT !.called = {"new"}, !.new_panics = built[2] > WordBits]
    /\ it' = IF built[2] > WordBits THEN it ELSE IterNew(built[2])
    /\ UNCHANGED <<built, yielded, nones, mat, picked>>

\* next() on the iterator made by new(n); a panic ends the run
CallNextWord ==
    /\ result.called = {"new"}
    /\ ~result.new_panics
    /\ ~result.next_panics
    /\ nones < MaxNones
    /\ IF it.n >= WordBits /\ result.overflow_checks
       THEN /\ result' = [result EXCEPT !.next_panics = TRUE]
            /\ UNCHANGED <<it, yielded, nones>>
       ELSE /\ Returned(NextWrapping(it))
            /\ UNCHANGED result
    /\ UNCHANGED <<built, mat, picked>>

NextWord == CallOfSize \/ CallNew \/ CallNextWord

SpecWord == InitWord /\ [][NextWord]_vars

(***************************************************************************)
(* C20: SetIterator::new(n) panics iff n is above the word width W; for    *)
(* every n <= W, W included, Set::of_size(n) is the full set of n elements *)
(* and the enumerator yields all 2^n subsets without a panic.  (2^W is     *)
(* beyond the numbers of the model: of a run over W elements that has      *)
(* returned None the formula asks for more than 2^(MaxSetN+1) words.)      *)
(***************************************************************************)
C20_WordWidthSupported ==
    /\ "of_size" \in result.called =>
          (built[2] <= WordBits => picked = [panics |-> FALSE, value |-> 0..(built[2] - 1)])
    /\ "new" \in result.called =>
          /\ result.new_panics <=> built[2] > WordBits
          /\ built[2] <= WordBits =>
                /\ ~result.next_panics
                /\ \A x \in 1..Len(yielded) : yielded[x] = x - 1
                /\ nones > 0 =>
                      IF built[2] <= MaxSetN THEN Len(yielded) = 2 ^ built[2]
                      ELSE Len(yielded) > 2 ^ (MaxSetN + 1)

(***************************************************************************)
(* The matroids combinatorial_derived() is called on: the uniform matroids *)
(* on at most MaxSourceN elements, and the sources of the tests and of the *)
(* crate documentation.                                                     *)
(***************************************************************************)
DerivedSources ==
    UNION {{UniformMatroid(k, n) : k \in 0..n} : n \in 0..MaxSourceN}
    \cup {UniformMatroid(3, 6), UniformMatroid(5, 6),
          Ham74, matroid_1, matroid_2, non_fast_matroid}

\* the derived matroids on at most MaxPoints elements
SmallDerived ==
    {d.matroid : d \in {x \in {from_matroid(m) : m \in DerivedSources} :
                           ~x.panics /\ Len(x.matroid.elements) <= MaxPoints}}

(***************************************************************************)
(* rank(subset) asked of one matroid for every subset of its ground set.   *)
(* The matroids are those of the catalog, their duals and elongations, and *)
(* the small derived matroids.  Where overflow checks are off a difference *)
(* below zero wraps; the value kept is the integer it is congruent to      *)
(* modulo 2^64 (-1 stands for 2^64 - 1).                                    *)
(***************************************************************************)
\* Matroid::rank under either build
RankOutcome(m, subset, overflow_checks) ==
    IF overflow_checks /\ RankUnderflows(m, subset) THEN Panic ELSE Value(rank(m, subset))

InitRank ==
    /\ mat \in Wrapped(Catalog) \cup SmallDerived
    /\ picked = {}
    /\ result = NoResult
    /\ IterIdle

CallRank ==
    /\ result.called = {}
    /\ \E overflow_checks \in BOOLEAN :
          result' = [called |-> {"rank"},
                     rank |-> [subset \in SUBSET Ground(mat) |->
                                  RankOutcome(mat, subset, overflow_checks)]]
    /\ UNCHANGED <<mat, picked, iterVars>>

NextRank == CallRank

SpecRank == InitRank /\ [][NextRank]_vars

(***************************************************************************)
(* C6: the rank every matroid returns satisfies the rank axioms for all    *)
(* subsets X, Y of its ground set: 0 <= rank(X) <= |X|; X within Y implies *)
(* rank(X) <= rank(Y); rank(X u Y) + rank(X n Y) <= rank(X) + rank(Y).      *)
(***************************************************************************)
C6_RankAxioms ==
    "rank" \in result.called =>
        /\ \A X \in DOMAIN result.rank :
              /\ ~result.rank[X].panics
              /\ 0 <= result.rank[X].value
              /\ result.rank[X].value <= Cardinality(X)
        /\ \A X, Y \in DOMAIN result.rank :
              /\ X \subseteq Y => result.rank[X].value <= result.rank[Y].value
              /\ result.rank[X \cup Y].value + result.rank[X \cap Y].value
                    <= result.rank[X].value + result.rank[Y].value

(***************************************************************************)
(* combinatorial_derived() called on a matroid, then circuits() on the     *)
(* derived matroid, then is_equal between the derived matroid and either   *)
(* the dual of the source (the crate documentation) or the uniform matroid *)
(* of the derived rank on as many elements (the test known_derived).       *)
(***************************************************************************)
InitDerived ==
    /\ mat \in DerivedSources
    /\ picked = {}
    /\ result = NoResult
    /\ IterIdle

\* let derived = matroid.combinatorial_derived(); fast tells which of the two
\* derivations from_matroid chose
CallCombinatorialDerived ==
    /\ result.called = {}
    /\ result' = [called |-> {"combinatorial_derived"},
                  fast |-> is_uniform(mat) \/ N(mat) <= 3,
                  derived |-> from_matroid(mat),
                  circuits |-> <<>>,
                  other |-> NoMatroid,
                  is_equal |-> FALSE]
    /\ UNCHANGED <<mat, picked, iterVars>>

\* derived.circuits()
CallDerivedCircuits ==
    /\ result.called = {"combinatorial_derived"}
    /\ ~result.derived.panics
    /\ result' = [result EXCEPT !.called = @ \cup {"circuits"},
                                !.circuits = circuits(result.derived.matroid)]
    /\ UNCHANGED <<mat, picked, iterVars>>

\* derived.is_equal(&dual), or res.is_equal(&derived) for a uniform res
CallDerivedIsEqual ==
    /\ result.called = {"combinatorial_derived", "circuits"}
    /\ \E other \in {Dual(mat),
                     UniformMatroid(result.derived.matroid.rank,
                                    Len(result.derived.matroid.elements))} :
          result' = [result EXCEPT !.called = @ \cup {"is_equal"},
                                   !.other = other,
                                   !.is_equal = IF other.type = "Dual"
                                                THEN is_equal(result.derived.matroid, other)
                                                ELSE is_equal(other, result.derived.matroid)]
    /\ UNCHANGED <<mat, picked, iterVars>>

NextDerived == CallCombinatorialDerived \/ CallDerivedCircuits \/ CallDerivedIsEqual

SpecDerived == InitDerived /\ [][NextDerived]_vars

\* how many of the circuits returned have c elements
CircuitsOfSize(c) ==
    Cardinality({x \in 1..Len(result.circuits) : Cardinality(result.circuits[x]) = c})

(***************************************************************************)
(* C8: the combinatorial derived matroid of U(3,6) has the 15 circuits of  *)
(* U(3,6) as its ground set and rank 3, and circuits() returns exactly 60  *)
(* circuits of 3 elements and 735 circuits of 4 elements, and no circuit   *)
(* of fewer than 3 or more than 4 elements.                                 *)
(***************************************************************************)
C8_DerivedOfU36 ==
    (mat = UniformMatroid(3, 6) /\ "circuits" \in result.called) =>
        /\ ~result.derived.panics
        /\ Range(result.derived.matroid.elements) = Subsets(6, 4)
        /\ N(result.derived.matroid) = 15
        /\ K(result.derived.matroid) = 3
        /\ rank(result.derived.matroid, 0..14) = 3
        /\ CircuitsOfSize(3) = 60
        /\ CircuitsOfSize(4) = 735
        /\ Len(result.circuits) = 60 + 735
        /\ \A x, y \in 1..Len(result.circuits) :
              result.circuits[x] = result.circuits[y] => x = y

C8_Witness ==
    /\ mat = UniformMatroid(3, 6)
    /\ "circuits" \in result.called
    /\ Len(result.circuits) = 795

(***************************************************************************)
(* C9: for a uniform source U(k,n) with r = n - k < 3 the derived matroid  *)
(* has the m = C(n,k+1) circuits of the source as elements, rank r, and    *)
(* every subset of r indices as a basis; is_equal against U(r,m) returns   *)
(* true and its circuits are the subsets of r+1 indices.  In particular    *)
(* the derived matroid of U(5,6) is equal to U(1,1), and that of U(3,5)    *)
(* has exactly 10 circuits.                                                 *)
(***************************************************************************)
C9_SmallRankIsUniform ==
    (/\ mat.type = "UniformMatroid"
     /\ mat.n - mat.k < 3
     /\ "combinatorial_derived" \in result.called) =>
        /\ ~result.derived.panics
        /\ Len(result.derived.matroid.elements) = Binomial(mat.n, mat.k + 1)
        /\ result.derived.matroid.rank = mat.n - mat.k
        /\ result.derived.matroid.bases
              = Subsets(Len(result.derived.matroid.elements), mat.n - mat.k)
        /\ "circuits" \in result.called =>
              /\ Range(result.circuits)
                    = Subsets(Len(result.derived.matroid.elements), mat.n - mat.k + 1)
              /\ Len(result.circuits)
                    = Binomial(Len(result.derived.matroid.elements), mat.n - mat.k + 1)
              /\ mat = UniformMatroid(3, 5) => Len(result.circuits) = 10
        /\ ("is_equal" \in result.called /\ result.other.type = "UniformMatroid") =>
              /\ result.other
                    = UniformMatroid(mat.n - mat.k, Binomial(mat.n, mat.k + 1))
              /\ result.is_equal
              /\ mat = UniformMatroid(5, 6) => result.other = UniformMatroid(1, 1)

C9_Witness ==
    /\ mat = UniformMatroid(5, 6)
    /\ "is_equal" \in result.called
    /\ result.other = UniformMatroid(1, 1)
    /\ result.is_equal

(***************************************************************************)
(* C10: the matroid of the generator matrix of Ham(7,4) has 7 elements and *)
(* rank 4 and is not uniform, so from_matroid takes the general derivation;*)
(* the derived matroid has 7 elements and rank 3, as the dual has,         *)
(* derived.is_equal(&dual) returns true and the two have the same          *)
(* independent sets.                                                        *)
(***************************************************************************)
C10_DerivedOfHamIsDual ==
    (/\ mat = Ham74
     /\ "is_equal" \in result.called
     /\ result.other.type = "Dual") =>
        /\ N(mat) = 7
        /\ K(mat) = 4
        /\ ~result.fast
        /\ ~result.derived.panics
        /\ N(result.derived.matroid) = 7
        /\ K(result.derived.matroid) = 3
        /\ N(result.other) = 7
        /\ K(result.other) = 3
        /\ result.is_equal
        /\ \A X \in SUBSET (0..6) :
              (rank(result.derived.matroid, X) = Cardinality(X))
                  <=> (rank(result.other, X) = Cardinality(X))

C10_Witness ==
    /\ mat = Ham74
    /\ "is_equal" \in result.called
    /\ result.other = Dual(Ham74)
    /\ result.is_equal

(***************************************************************************)
(* The two derivations called on the same uniform matroid, in either       *)
(* order, as the test uniform_2_6 calls them on U(2,6).                    *)
(***************************************************************************)
PathSources == UNION {{UniformMatroid(k, n) : k \in 0..n} : n \in 0..(MaxSourceN + 1)}

\* no derivation made yet
NotDerived == [panics |-> FALSE, matroid |-> NoMatroid]

InitPaths ==
    /\ mat \in PathSources
    /\ picked = {}
    /\ result = [called |-> {}, fast_calculation |-> NotDerived,
                 non_fast_calculation |-> NotDerived]
    /\ IterIdle

\* let fast_calculation = CombinatorialDerived::from_fast_matroid(&matroid);
CallFromFast ==
    /\ "from_fast_matroid" \notin result.called
    /\ result' = [result EXCEPT !.called = @ \cup {"from_fast_matroid"},
                                !.fast_calculation = from_fast_matroid(mat)]
    /\ UNCHANGED <<mat, picked, iterVars>>

\* let non_fast_calculation = CombinatorialDerived::from_non_fast_matroid(&matroid);
CallFromNonFast ==
    /\ "from_non_fast_matroid" \notin result.called
    /\ result' = [result EXCEPT !.called = @ \cup {"from_non_fast_matroid"},
                                !.non_fast_calculation = from_non_fast_matroid(mat)]
    /\ UNCHANGED <<mat, picked, iterVars>>

NextPaths == CallFromFast \/ CallFromNonFast

SpecPaths == InitPaths /\ [][NextPaths]_vars

(***************************************************************************)
(* C7: on a uniform matroid from_fast_matroid and from_non_fast_matroid    *)
(* both return, and return equal matroids: as many elements, the same rank *)
(* and the same bases, hence the same independent sets (a set of 3 or more *)
(* indices is independent iff it lies within a basis, a smaller one        *)
(* always).                                                                 *)
(***************************************************************************)
C7_PathsAgree ==
    {"from_fast_matroid", "from_non_fast_matroid"} \subseteq result.called =>
        /\ ~result.fast_calculation.panics
        /\ ~result.non_fast_calculation.panics
        /\ N(result.fast_calculation.matroid) = N(result.non_fast_calculation.matroid)
        /\ K(result.fast_calculation.matroid) = K(result.non_fast_calculation.matroid)
        /\ result.fast_calculation.matroid.bases = result.non_fast_calculation.matroid.bases

(***************************************************************************)
(* par_circuits() run worker by worker.  par_bridge() puts the SetIterator *)
(* of a pass behind a lock; a worker of the pool takes the lock, calls     *)
(* next() and releases the lock, then applies the filter to the Set it got *)
(* and keeps it in its own list; the first None ends the taking.  collect()*)
(* returns once every worker has finished and chains the workers' lists in *)
(* no fixed order; circuits.extend() appends the chain.  `it` is the       *)
(* iterator of the running pass.                                            *)
(***************************************************************************)
ParWorkers == 1..MaxWorkers

ParSources == {m \in Catalog : N(m) <= MaxParN /\ K(m) >= 0 /\ K(m) <= N(m)}

\* SetIterator::new(self.n()).size_limit(circuit_cardinality).equal()
ParPass(m, circuit_cardinality) ==
    WithPolicy(SizeLimitOf(IterNew(N(m)), circuit_cardinality), "Equal")

\* the state of a pass that has just started
PassStarted(circuits_so_far, circuit_cardinality) ==
    [called |-> {"par_circuits running"},
     circuit_cardinality |-> circuit_cardinality,
     exhausted |-> FALSE,
     held |-> [w \in ParWorkers |-> <<>>],
     kept |-> [w \in ParWorkers |-> <<>>],
     circuits |-> circuits_so_far]

InitPar ==
    /\ mat \in ParSources
    /\ picked = {}
    /\ result = NoResult
    /\ IterIdle

\* let mut circuits = Vec::new(); and the start of the first pass of the loop
ParBegin ==
    /\ result.called = {}
    /\ it' = ParPass(mat, 1)
    /\ result' = PassStarted(<<>>, 1)
    /\ UNCHANGED <<built, yielded, nones, mat, picked>>

\* worker w holding what next() returned, r
Taken(res, w, r) ==
    IF r.some THEN [res EXCEPT !.held[w] = <<r.val>>] ELSE [res EXCEPT !.exhausted = TRUE]

\* worker w takes the lock and calls next() on the shared iterator
WorkerNext(w) ==
    /\ result.called = {"par_circuits running"}
    /\ ~result.exhausted
    /\ result.held[w] = <<>>
    /\ it' = IterNextOf(it).it
    /\ result' = Taken(result, w, IterNextOf(it))
    /\ UNCHANGED <<built, yielded, nones, mat, picked>>

\* worker w applies .filter(|set| self.is_circuit(set)) to the Set it holds
WorkerFilter(w) ==
    /\ result.called = {"par_circuits running"}
    /\ result.held[w] # <<>>
    /\ result' = [result EXCEPT
                     !.held[w] = <<>>,
                     !.kept[w] = IF is_circuit(mat, SetOf(result.held[w][1]))
                                 THEN Append(@, SetOf(result.held[w][1]))
                                 ELSE @]
    /\ UNCHANGED <<mat, picked, iterVars>>

\* collect() returning although a worker still holds a Set
PassOverEarly(res) == res.exhausted

\* collect() returns: the iterator is exhausted and no worker holds a Set
PassOver(res) == res.exhausted /\ \A w \in ParWorkers : res.held[w] = <<>>

\* the orders in which the workers' lists may be chained
ChainOrders == {o \in [ParWorkers -> ParWorkers] : \A v, w \in ParWorkers : o[v] = o[w] => v = w}

\* the workers' lists chained in the order o, from the x-th on
RECURSIVE Chain(_, _, _)
Chain(kept, o, x) == IF x > MaxWorkers THEN <<>> ELSE kept[o[x]] \o Chain(kept, o, x + 1)

\* circuits.extend(circuits_of_cardinality), then the next pass of the for
\* loop, or the return after the pass of k + 1
PassCollect ==
    /\ result.called = {"par_circuits running"}
    /\ PassOver(result)
    /\ \E o \in ChainOrders :
          IF result.circuit_cardinality = K(mat) + 1
          THEN /\ result' = [called |-> {"par_circuits"},
                             circuits |-> result.circuits \o Chain(result.kept, o, 1)]
               /\ it' = it
          ELSE /\ result' = PassStarted(result.circuits \o Chain(result.kept, o, 1),
                                        result.circuit_cardinality + 1)
               /\ it' = ParPass(mat, result.circuit_cardinality + 1)
    /\ UNCHANGED <<built, yielded, nones, mat, picked>>

NextPar ==
    \/ ParBegin
    \/ \E w \in ParWorkers : WorkerNext(w)
    \/ \E w \in ParWorkers : WorkerFilter(w)
    \/ PassCollect

SpecPar == InitPar /\ [][NextPar]_vars

bases_without_exchange ==
    BasesMatroid({{0, 1}, {0, 2}, {0, 3}, {1, 3}, {2, 3}, {2, 4}, {3, 4}}, 5, 2)

ClosureSources ==
    UNION {{UniformMatroid(k, n) : k \in 0..n} : n \in 0..MaxSourceN}
    \cup {Ham74, matroid_1, matroid_2, non_fast_matroid, bases_without_exchange,
          Dual(non_fast_matroid), Dual(Ham74), Dual(matroid_1), Dual(matroid_2),
          Elongate(matroid_1, 1), Elongate(Ham74, 1), Elongate(non_fast_matroid, 1)}

\* the locals of from_non_fast_matroid once the seed family is there, in
\* front of the closure loop; rounds and decrements count the turns of the
\* two loops, rounds up to MaxRounds
LoopState(dependents, elements, derived_rank) ==
    [phase |-> "loop", panic |-> "", elements |-> elements,
     dependents |-> dependents, cardinality |-> Cardinality(dependents),
     rank |-> derived_rank, bases |-> {}, rounds |-> 0, decrements |-> 0]

\* let mut dependents = initial_dependents_support_limit(matroid, &elements, rank);
\* dependents = inclusion_minimal(&dependents);
SeedState(matroid, derived_rank, elements) ==
    LoopState(inclusion_minimal(initial_dependents_support_limit(matroid, elements, derived_rank)),
              elements, derived_rank)

\* if dependents.len() == cardinality { break; }
ClosureStopsAtOnce(len, cardinality) == TRUE

ClosureNeverStops(len, cardinality) == len < cardinality

ClosureStops(len, cardinality) == len = cardinality

\* the locals after one turn of the closure loop that made dependents
RoundState(res, dependents) ==
    [res EXCEPT !.dependents = dependents,
                !.cardinality = Cardinality(dependents),
                !.rounds = Min2(@ + 1, MaxRounds),
                !.phase = IF ClosureStops(Cardinality(dependents), res.cardinality)
                          THEN "closed" ELSE "loop"]

\* while bases.is_empty() is left once the bases are not empty
LoopExitsAlways(found) == TRUE

LoopExits(found) == found # {}

\* the locals after a pass of bases_from_dependents that found the bases
BasesState(res, derived_rank, found) ==
    [res EXCEPT !.rank = derived_rank, !.bases = found, !.phase = "reduce"]

InitClosure ==
    /\ mat \in ClosureSources
    /\ picked = {}
    /\ result = [phase |-> "start"]
    /\ IterIdle

\* from_non_fast_matroid down to the closure loop
ClosureSeed ==
    /\ result.phase = "start"
    /\ result' = SeedState(mat, N(mat) - K(mat), circuits(mat))
    /\ UNCHANGED <<mat, picked, iterVars>>

\* one turn of the closure loop; epsilon panics on the empty family
ClosureRound ==
    /\ result.phase = "loop"
    /\ result' = IF result.dependents = {}
                 THEN [result EXCEPT !.phase = "panic", !.panic = "epsilon"]
                 ELSE RoundState(result, inclusion_minimal(epsilon(result.dependents, result.rank)))
    /\ UNCHANGED <<mat, picked, iterVars>>

\* let mut bases = bases_from_dependents(&dependents, elements.len(), rank);
ExtractBases ==
    /\ result.phase = "closed"
    /\ result' = BasesState(result, result.rank,
                            bases_from_dependents(result.dependents, Len(result.elements),
                                                  result.rank))
    /\ UNCHANGED <<mat, picked, iterVars>>

\* one turn of while bases.is_empty()
ReduceRank ==
    /\ result.phase = "reduce"
    /\ ~LoopExits(result.bases)
    /\ result' = IF result.rank = 0
                 THEN [result EXCEPT !.phase = "panic",
                                     !.panic = "got negative rank for the combinatorial derived matroid"]
                 ELSE [BasesState(result, result.rank - 1,
                                  bases_from_dependents(result.dependents, Len(result.elements),
                                                        result.rank - 1))
                          EXCEPT !.decrements = @ + 1]
    /\ UNCHANGED <<mat, picked, iterVars>>

\* Self { rank, elements, bases }
ReturnDerived ==
    /\ result.phase = "reduce"
    /\ LoopExits(result.bases)
    /\ result' = [result EXCEPT !.phase = "returned"]
    /\ UNCHANGED <<mat, picked, iterVars>>

NextClosure ==
    \/ ClosureSeed
    \/ ClosureRound
    \/ ExtractBases
    \/ ReduceRank
    \/ ReturnDerived

SpecClosure == InitClosure /\ [][NextClosure]_vars

C23_StopsAtFixedPoint ==
    result.phase = "closed" =>
        inclusion_minimal(epsilon(result.dependents, result.rank)) = result.dependents

\* the loop has stopped after a round that changed the family
C23_Witness ==
    /\ result.phase = "closed"
    /\ result.rounds >= 3

(***************************************************************************)
(* epsilon on its own, as tests::epsilon_1 calls it                        *)
(***************************************************************************)

\* the Sets of 3 or more of the first MaxEpsPoints indices
EpsilonMembers == {set \in SUBSET (0..(MaxEpsPoints - 1)) : Cardinality(set) >= 3}

\* the families of at most MaxFamily of them
EpsilonFamilies == {family \in SUBSET EpsilonMembers : Cardinality(family) <= MaxFamily}

\* epsilon(&dependents, rank), which panics on the empty list
EpsilonOutcome(dependents, derived_rank) ==
    IF dependents = {} THEN [panics |-> TRUE, dependents |-> {}]
    ELSE [panics |-> FALSE, dependents |-> epsilon(dependents, derived_rank)]

InitEpsilon ==
    /\ mat = NoMatroid
    /\ picked = {}
    /\ \E family \in EpsilonFamilies, derived_rank \in 0..(MaxEpsPoints + 1) :
          result = [called |-> {}, dependents |-> family, rank |-> derived_rank,
                    res |-> [panics |-> FALSE, dependents |-> {}]]
    /\ IterIdle

\* let res = epsilon(&dependents, 3);
CallEpsilon ==
    /\ result.called = {}
    /\ result' = [result EXCEPT !.called = {"epsilon"},
                                !.res = EpsilonOutcome(result.dependents, result.rank)]
    /\ UNCHANGED <<mat, picked, iterVars>>

NextEpsilon == CallEpsilon

SpecEpsilon == InitEpsilon /\ [][NextEpsilon]_vars

\* the Sets the claim adds for the members A and B of D
EpsilonAdded(D, r, A, B) ==
    IF /\ Cardinality(A) + Cardinality(B) - Cardinality(A \cap B) - 1 <= r
       /\ A \cap B # {}
       /\ \/ Cardinality(A \cap B) <= 2
          \/ ~\E member \in D : member \subseteq A \cap B
    THEN {added \in {(A \cup B) \ {e} : e \in A \cap B} : Cardinality(added) <= r}
    ELSE {}

(***************************************************************************)
(* C24: on a family D that is not empty epsilon(D, r) returns, as a set, D *)
(* together with every (A u B) \ {e} of size at most r, for distinct       *)
(* members A and B of D with |A| + |B| - |A n B| - 1 <= r whose            *)
(* intersection is not empty and either has at most 2 elements or holds no *)
(* member of D, and e in the intersection.                                 *)
(***************************************************************************)
C24_EpsilonAsSet ==
    (result.called = {"epsilon"} /\ result.dependents # {}) =>
        /\ ~result.res.panics
        /\ result.res.dependents =
              result.dependents
              \cup UNION {EpsilonAdded(result.dependents, result.rank, pair[1], pair[2]) :
                             pair \in {p \in result.dependents \X result.dependents : p[1] # p[2]}}

\* epsilon({0111, 1110}, 3) = {0111, 1110, 1101, 1011}
C24_Witness ==
    /\ result.called = {"epsilon"}
    /\ result.dependents = {{0, 1, 2}, {1, 2, 3}}
    /\ result.rank = 3
    /\ result.res.dependents = {{0, 1, 2}, {1, 2, 3}, {0, 2, 3}, {0, 1, 3}}

FreeSubsets(family, m, k) ==
    {subset \in SUBSET (0..(m - 1)) :
        Cardinality(subset) = k /\ ~\E member \in family : member \subseteq subset}

\* what the claim says of the locals res of a call that has returned, for a
\* source of nullity r
LargestFreeRank(res, r) ==
    /\ res.rank <= r
    /\ res.bases = FreeSubsets(res.dependents, Len(res.elements), res.rank)
    /\ res.bases # {}
    /\ \A k \in (res.rank + 1)..r : FreeSubsets(res.dependents, Len(res.elements), k) = {}

(***************************************************************************)
(* C26: from_non_fast_matroid returns as rank the largest k' <= n - k for  *)
(* which some subset of k' of the indices 0..m-1 of the circuits contains  *)
(* no member of the final family, its bases are exactly those subsets, and *)
(* the family stays as it is while the rank is lowered.                    *)
(***************************************************************************)
C26_RankAndBases ==
    [][/\ result'.phase = "returned" => LargestFreeRank(result', N(mat) - K(mat))
       /\ result.phase \in {"closed", "reduce"} => result'.dependents = result.dependents]_vars

\* a call has returned a rank below n - k with bases that leave subsets out
C26_Witness ==
    /\ result.phase = "returned"
    /\ result.rank < N(mat) - K(mat)
    /\ \E member \in result.dependents : size(member) <= result.rank

(***************************************************************************)
(* C28: from a seed family that is not empty the closure loop comes to its *)
(* end, within MaxRounds rounds, and the loop that lowers the rank comes   *)
(* to its end too: each of its turns lowers the rank by one and none takes *)
(* it below 0, so it ends within n - k turns, with bases or with the       *)
(* abort.  Every step of a call adds to rounds or to decrements or moves   *)
(* on to a later phase, so no call runs for ever.                          *)
(***************************************************************************)
C28_LoopsTerminate ==
    /\ (result.phase = "loop" /\ result.dependents # {}) => result.rounds < MaxRounds
    /\ result.phase \in {"reduce", "returned"} =>
          /\ result.rank >= 0
          /\ result.rank + result.decrements = N(mat) - K(mat)
    /\ result.phase = "panic" => (result.panic = "epsilon" <=> result.dependents = {})

\* a call has returned after four or more rounds and a lowering of the rank
C28_Witness ==
    /\ result.phase = "returned"
    /\ result.rounds >= 4
    /\ result.decrements >= 1

(***************************************************************************)
(* C29: for a source that is not uniform and has more than 3 elements and  *)
(* whose seed family is empty, from_non_fast_matroid does not abort, and   *)
(* returns the rank n - k with every subset of n - k circuit indices as a  *)
(* basis.                                                                  *)
(***************************************************************************)
C29_EmptySeedCompletes ==
    (/\ result.phase # "start"
     /\ result.dependents = {}
     /\ N(mat) > 3
     /\ ~is_uniform(mat)) =>
        /\ result.phase # "panic"
        /\ result.phase = "returned" =>
              /\ result.rank = N(mat) - K(mat)
              /\ result.bases = FreeSubsets({}, Len(result.elements), result.rank)

(***************************************************************************)
(* One call of epsilon, its workers interleaved.  par_bridge hands the     *)
(* indices 0..len-2 to the workers one at a time; a worker inserts         *)
(* dependents[i] and then, pair by pair, the Sets of the pairs (i, j) into *)
(* the DashSet, one insert at a time; for_each returns when every index is *)
(* taken and every worker is through with its index.                       *)
(***************************************************************************)

\* the members of a family in some order, as the Vec they arrive in
RECURSIVE SeqOf(_)
SeqFrom(S, x) == <<x>> \o SeqOf(S \ {x})

SeqOf(S) == IF S = {} THEN <<>> ELSE SeqFrom(S, CHOOSE x \in S : TRUE)

\* the seed family of from_non_fast_matroid for matroid, with its rank
SeedInput(matroid, derived_rank) ==
    [dependents |-> SeqOf(inclusion_minimal(
                              initial_dependents_support_limit(matroid, circuits(matroid),
                                                               derived_rank))),
     rank |-> derived_rank]

\* the family of tests::epsilon_1 in both orders, and seed families
RoundInputs ==
    {[dependents |-> <<{0, 1, 2}, {1, 2, 3}>>, rank |-> 3],
     [dependents |-> <<{1, 2, 3}, {0, 1, 2}>>, rank |-> 3],
     SeedInput(UniformMatroid(1, 4), 3),
     SeedInput(matroid_2, 3),
     SeedInput(bases_without_exchange, 3)}

\* the state of a call of epsilon that has just made its DashSet
RoundStarted(input) ==
    [phase |-> "for_each", dependents |-> input.dependents, rank |-> input.rank,
     next |-> 0,
     at |-> [w \in ParWorkers |-> <<>>],
     todo |-> [w \in ParWorkers |-> <<>>],
     items |-> [w \in ParWorkers |-> 0],
     dependent |-> {}, family |-> {}]

InitRound ==
    /\ mat = NoMatroid
    /\ picked \in RoundInputs
    /\ result = [phase |-> "start"]
    /\ IterIdle

\* let dependent = DashSet::new();
RoundBegin ==
    /\ result.phase = "start"
    /\ result' = RoundStarted(picked)
    /\ UNCHANGED <<mat, picked, iterVars>>

\* worker w takes the next index i of 0..len-1 and is about to insert
\* dependents[i]
ItemTake(w) ==
    /\ result.phase = "for_each"
    /\ result.at[w] = <<>>
    /\ result.next < Len(result.dependents) - 1
    /\ result' = [result EXCEPT !.next = @ + 1,
                                !.at[w] = <<result.next, result.next + 1>>,
                                !.todo[w] = <<result.dependents[result.next + 1]>>,
                                !.items[w] = @ + 1]
    /\ UNCHANGED <<mat, picked, iterVars>>

\* dependent.insert(..) by worker w
ItemInsert(w) ==
    /\ result.phase = "for_each"
    /\ result.todo[w] # <<>>
    /\ result' = [result EXCEPT !.dependent = @ \cup {Head(result.todo[w])},
                                !.todo[w] = Tail(@)]
    /\ UNCHANGED <<mat, picked, iterVars>>

\* the Sets worker w is to insert for the pair of a = dependents[i] and
\* b = dependents[j]
PairTodo(res, a, b) ==
    SeqOf(EpsilonOfPair(Range(res.dependents), res.rank, a, b, intersect(a, b)))

\* worker w comes to the next j of (i + 1)..len
ItemPair(w) ==
    /\ result.phase = "for_each"
    /\ result.at[w] # <<>>
    /\ result.todo[w] = <<>>
    /\ result.at[w][2] < Len(result.dependents)
    /\ result' = [result EXCEPT !.at[w][2] = @ + 1,
                                !.todo[w] = PairTodo(result,
                                                     result.dependents[result.at[w][1] + 1],
                                                     result.dependents[result.at[w][2] + 1])]
    /\ UNCHANGED <<mat, picked, iterVars>>

\* worker w is through with its index
ItemDone(w) ==
    /\ result.phase = "for_each"
    /\ result.at[w] # <<>>
    /\ result.todo[w] = <<>>
    /\ result.at[w][2] = Len(result.dependents)
    /\ result' = [result EXCEPT !.at[w] = <<>>]
    /\ UNCHANGED <<mat, picked, iterVars>>

\* for_each returning once the indices are out, whatever the workers do
RoundOverEarly(res) == res.next = Len(res.dependents) - 1

\* for_each returns: the indices are out and no worker is at one
RoundOver(res) ==
    /\ res.next = Len(res.dependents) - 1
    /\ \A w \in ParWorkers : res.at[w] = <<>>

\* dependent.insert(dependents[dependents.len() - 1]);
\* dependent.into_iter().collect()
RoundCollect ==
    /\ result.phase = "for_each"
    /\ RoundOver(result)
    /\ result' = [result EXCEPT
                     !.phase = "collected",
                     !.family = result.dependent
                                \cup {result.dependents[Len(result.dependents)]}]
    /\ UNCHANGED <<mat, picked, iterVars>>

NextRound ==
    \/ RoundBegin
    \/ \E w \in ParWorkers : ItemTake(w)
    \/ \E w \in ParWorkers : ItemInsert(w)
    \/ \E w \in ParWorkers : ItemPair(w)
    \/ \E w \in ParWorkers : ItemDone(w)
    \/ RoundCollect

SpecRound == InitRound /\ [][NextRound]_vars

(***************************************************************************)
(* C27: however the workers of one call of epsilon interleave, the family  *)
(* it returns has the same members, those of epsilon run by one worker:    *)
(* no insert is lost; the list it was given is as it was; and when it      *)
(* returns every index has been taken and no worker is at an index or has  *)
(* an insert left to do.                                                   *)
(***************************************************************************)
C27_RoundFamily ==
    result.phase = "collected" =>
        /\ result.family = epsilon(Range(picked.dependents), picked.rank)
        /\ result.dependents = picked.dependents
        /\ result.next = Len(result.dependents) - 1
        /\ \A w \in ParWorkers : result.at[w] = <<>> /\ result.todo[w] = <<>>

\* a call has returned in which each worker had an index and Sets were added
C27_Witness ==
    /\ result.phase = "collected"
    /\ \A w \in ParWorkers : result.items[w] >= 1
    /\ result.family # Range(result.dependents)

(***************************************************************************)
(* C30: every word the enumerator yields, whatever the policy and the size *)
(* limit c (c > n included), lies in [0, 2^n); with the policy Equal and   *)
(* c > n it yields nothing.                                                *)
(***************************************************************************)
C30_YieldsWithinGroundSet ==
    /\ \A x \in 1..Len(yielded) : yielded[x] >= 0 /\ yielded[x] < Pow2(built[2])
    /\ (it.size_limit_policy = "Equal" /\ it.size_limit > it.n) => yielded = <<>>

=============================================================================
